---- MODULE Spec2Model ----
(***************************************************************************)
(* CELESTE7 behavioural-intervention service.                              *)
(*                                                                         *)
(* The module models, from the JavaScript sources,                         *)
(*   - BrutalInterventionGenerator (brutal-interventions.js):              *)
(*     trackResistance as a three-step process (score, read, upsert) run   *)
(*     by concurrent calls, and generateIntervention as an operator;       *)
(*   - BrutalQueryOptimizer (pattern-queries-optimzed.js) and the analyze  *)
(*     handler built on it (api/analyze.js);                               *)
(*   - RealTimeBehavioralIntelligence and its POST /api/analyze route      *)
(*     (celeste7-real-engine.js).                                          *)
(*                                                                         *)
(* JavaScript numbers are modelled as exact fractions <<n, d>>: d > 0 is a *)
(* finite number, d = 0 is +Infinity (n > 0), -Infinity (n < 0) or NaN     *)
(* (n = 0).                                                                *)
(***************************************************************************)
EXTENDS Integers, Sequences, FiniteSets, TLC

\* ------------------------------------------------------------------------
\* Bounds of the model
\* ------------------------------------------------------------------------

\* Number of trackResistance calls that may be in flight at once.
MaxCalls == 2

\* Longest reply text, in words, a trackResistance call is given.
MaxReplyWords == 3

\* Range of the resistanceLevel argument given to generateIntervention:
\* from -LevelArgsBelow to MaxLevelArg.
LevelArgsBelow == 2

\* The most intervention_deliveries rows a user gets.
MaxDeliveries == 1

\* The most rows intervention_effectiveness gets.
MaxOutcomeRows == 3

MaxLevelArg == 7

\* The most planning tasks and used execution tasks a user has.
MaxPlannedTasks == 60

MaxExecutedTasks == 20

\* The withCircuitBreaker calls of one behaviour and those awaiting their
\* operation at once.
MaxGuardedCalls == 4

MaxInFlight == 2

\* The largest failure count of a circuit.
MaxFailures == 4

\* The last instant of the clock, in ms.
MaxNow == 30000

\* The reconnect timeouts of the client pending at once.
MaxTimers == 3

\* The patterns the client detects and its pattern POSTs in flight at once.
MaxPatterns == 3

MaxPosts == 2

\* The pattern checks of one realtime response in flight at once.
MaxChecks == 2

\* The requests of u1 admitted at one instant and the last instant of the
\* rate limit's clock, in ms.
MaxAdmitted == 32

MaxRateNow == 90000

Users == {"u1", "u2"}

Calls == 1..MaxCalls

\* ------------------------------------------------------------------------
\* JavaScript values
\* ------------------------------------------------------------------------

\* An optional value is a sequence of length at most one: Null is JavaScript's
\* null / undefined (what a failed or empty datastore read leaves in `data`),
\* Some(x) a present value.
Null == <<>>

Some(x) == <<x>>

Val(o) == o[1]

\* No row of the table for the key.
NoRow == <<>>

\* No user: the userId of a call slot that is not in use.
NoUser == "none"

Min(a, b) == IF a < b THEN a ELSE b

Max(a, b) == IF a > b THEN a ELSE b

\* ------------------------------------------------------------------------
\* JavaScript numbers
\* ------------------------------------------------------------------------

\* A number is <<n, d>> in lowest terms: d > 0 a finite number n/d, d = 0
\* +Infinity (n = 1), -Infinity (n = -1) or NaN (n = 0). undefined is <<>>.
Undefined == <<>>

NaN == <<0, 0>>

Abs(i) == IF i < 0 THEN 0 - i ELSE i

Sign(i) == IF i > 0 THEN 1 ELSE IF i < 0 THEN 0 - 1 ELSE 0

RECURSIVE GCD(_, _)
GCD(a, b) == IF b = 0 THEN a ELSE GCD(b, a % b)

\* The number n/d (d >= 0) in lowest terms.
Num(n, d) ==
  IF d = 0 THEN <<Sign(n), 0>>
  ELSE LET g == GCD(Abs(n), d) IN <<n \div g, d \div g>>

Whole(i) == <<i, 1>>

IsNaN(x) == x = NaN

IsFinite(x) == x[2] > 0

\* ToNumber: undefined becomes NaN.
ToNumber(v) == IF v = Undefined THEN NaN ELSE v

\* x + y, x - y, x * y, x / y of IEEE arithmetic (without rounding error and
\* without a negative zero).
Add(x, y) == Num(x[1] * y[2] + y[1] * x[2], x[2] * y[2])

Sub(x, y) == Num(x[1] * y[2] - y[1] * x[2], x[2] * y[2])

Mul(x, y) == Num(x[1] * y[1], x[2] * y[2])

Recip(y) ==
  IF y[1] > 0 THEN <<y[2], y[1]>>
  ELSE IF y[1] < 0 THEN <<0 - y[2], 0 - y[1]>>
  ELSE IF y[2] > 0 THEN <<1, 0>> ELSE NaN

Div(x, y) == LET r == Recip(y) IN Num(x[1] * r[1], x[2] * r[2])

\* x < y and x > y: false when either is NaN.
Lt(x, y) ==
  /\ ~IsNaN(x) /\ ~IsNaN(y)
  /\ IF x[2] = 0 /\ y[2] = 0 THEN x[1] < y[1] ELSE x[1] * y[2] < y[1] * x[2]

Gt(x, y) == Lt(y, x)

\* Math.min(x, y): NaN when either is NaN.
MathMin(x, y) ==
  IF IsNaN(x) \/ IsNaN(y) THEN NaN ELSE IF Lt(y, x) THEN y ELSE x

\* Math.round(x): floor(x + 0.5); NaN and the infinities are kept.
MathRound(x) ==
  IF ~IsFinite(x) THEN x ELSE Whole((2 * x[1] + x[2]) \div (2 * x[2]))

\* Truthiness of a number or undefined: undefined, NaN and 0 are falsy.
Truthy(v) == v # Undefined /\ ~IsNaN(v) /\ v[1] # 0

\* v || w
OrElse(v, w) == IF Truthy(v) THEN v ELSE w

\* ------------------------------------------------------------------------
\* State
\* ------------------------------------------------------------------------

VARIABLES
  resistance,   \* user_patterns rows of type intervention_resistance:
                \* user -> NoRow or Some(pattern_data.level)
  tr,           \* trackResistance calls: call -> its position and live locals
  gen,          \* the last generateIntervention call: its arguments and result
  pattern_cache, \* pattern_cache rows: user -> NoRow or Some(cached result)
  patternCache, \* the engine's LRU: user -> the entries behavioral:<user>
                \* (profile) and rate:<user> (requests, 0 without entry)
  deliveries,   \* intervention_deliveries: user -> number of rows
  resp,         \* the last output of a handler, with the request it answers:
                \* an HTTP response or the outcome of a realtime pattern check
  effectiveness, \* intervention_effectiveness: the rows, oldest first
  out,          \* the last response of track-outcome or health, with its
                \* request
  hf,           \* HuggingFaceFallback: isHFHealthy, whether a health check is
                \* due, and the last detectPattern call with its result
  run,          \* the position of one analyzeUser call: the reads of its
                \* fan-out in flight and the reads each detector has made
  breaker,      \* supabaseBreaker: its state and the calls and failures of
                \* its rolling window
  detected,     \* the last call of the execution-paralysis detectors: the task
                \* counts and blocker rows given and what each returned
  circuitBreakers, \* circuitBreakers of api/analyze.js: per service
                \* failures, lastFailure and isOpen
  cb,           \* the clock, the operations awaited inside withCircuitBreaker
                \* and what its last step did
  client,       \* Celeste7VercelRealTime: its EventSource, reconnect state and
                \* timers, the pattern buffer and the pattern POSTs in flight
  lru,          \* the engine's LRU around rate:u1: the clock, when the entry
                \* was set, the entries used after it and the requests of u1
                \* admitted at each instant
  app,          \* App of the frontend: localStorage and sessionStorage items, the
                \* React state and how the last load or login ended
  stream        \* one response of GET /api/realtime/:userId: its intervals, the
                \* pattern checks in flight, the close and the last write

resistanceVars == <<resistance, tr>>

\* The state of the HTTP handlers.
engineVars == <<patternCache, deliveries>>

httpVars == <<pattern_cache, resp, patternCache, deliveries>>

\* The state besides that of the analyze handlers.
auxVars ==
  <<effectiveness, out, hf, run, breaker, detected, circuitBreakers, cb, client,
    lru, app, stream>>

\* The state of the servers' handlers and of the engine.
serverVars ==
  <<resistance, tr, gen, pattern_cache, resp, patternCache, deliveries,
    effectiveness, out, hf, run, breaker, detected>>

vars ==
  <<resistance, tr, gen, pattern_cache, resp, patternCache, deliveries, auxVars>>

\* ------------------------------------------------------------------------
\* trackResistance: the reply text
\* ------------------------------------------------------------------------

\* Words a reply is made of. A reply is a sequence of words separated by
\* single blanks.
Vocabulary == {"but", "BUT", "however", "yes", "can't", "impossible",
               "unfair", "butter", "ok"}

\* String.prototype.toLowerCase on one word.
ToLowerCase(w) == IF w = "BUT" THEN "but" ELSE w

\* resistanceMarkers, each as its sequence of words.
resistanceMarkers ==
  << <<"but">>, <<"however">>, <<"yes", "but">>, <<"can't">>,
     <<"impossible">>, <<"maybe", "later">>, <<"not", "ready">>,
     <<"need", "to", "think">>, <<"too", "aggressive">>,
     <<"too", "harsh">>, <<"unfair">> >>

\* Substring relations between a (lower-case) word of the vocabulary and a
\* word of a marker: includes() works on characters, so "butter" holds "but".
WordContains(w, m) == w = m \/ (w = "butter" /\ m = "but")

WordStartsWith(w, m) == w = m \/ (w = "butter" /\ m = "but")

WordEndsWith(w, m) == w = m

\* The marker's words sit in the text from word i on.
MarkerAt(text, marker, i) ==
  LET k == Len(marker) IN
  /\ i + k - 1 <= Len(text)
  /\ IF k = 1
       THEN WordContains(text[i], marker[1])
       ELSE /\ WordEndsWith(text[i], marker[1])
            /\ WordStartsWith(text[i + k - 1], marker[k])
            /\ \A j \in 2..(k - 1) : text[i + j - 1] = marker[j]

\* userResponse.toLowerCase().includes(marker)
Includes(userResponse, marker) ==
  LET lower == [i \in 1..Len(userResponse) |-> ToLowerCase(userResponse[i])] IN
  \E i \in 1..Len(lower) : MarkerAt(lower, marker, i)

\* resistanceMarkers.reduce(...): the number of markers the reply holds.
ResistanceScore(userResponse) ==
  Cardinality({i \in 1..Len(resistanceMarkers) :
                 Includes(userResponse, resistanceMarkers[i])})

Replies == UNION {[1..n -> Vocabulary] : n \in 0..MaxReplyWords}

\* The scores the replies give: a call's behaviour depends on its reply
\* through resistanceScore alone.
ReplyScores == {ResistanceScore(r) : r \in Replies}

\* ------------------------------------------------------------------------
\* trackResistance: the level
\* ------------------------------------------------------------------------

\* currentLevel?.pattern_data?.level || 0, for the data the read returned
\* (a level, or Null when there is no row or the read failed).
CurrentLevel(data) == IF data = Null THEN 0 ELSE Val(data)

\* Mutant of NewLevel: escalates from two markers on.
NewLevel_AtLeastTwo(data, resistanceScore) ==
  CurrentLevel(data) + (IF resistanceScore >= 2 THEN 1 ELSE 0)

\* newLevel: the level read plus one when more than two markers were found.
NewLevel(data, resistanceScore) ==
  CurrentLevel(data) + (IF resistanceScore > 2 THEN 1 ELSE 0)

\* Mutant of UpsertLevel: the cap is left out.
UpsertLevel_NoCap(newLevel) == newLevel

\* pattern_data.level of the upsert: Math.min(newLevel, 5).
UpsertLevel(newLevel) == Min(newLevel, 5)

\* A call slot. score is live until newLevel is computed, newLevel from then
\* on; readOk records whether the select answered with data or with an error.
IdleCall ==
  [pc |-> "idle", user |-> NoUser, score |-> 0, newLevel |-> 0, readOk |-> TRUE]

InitResistance ==
  /\ resistance = [u \in Users |-> NoRow]
  /\ tr = [c \in Calls |-> IdleCall]

\* Lines 317-326: the call starts and scores the reply; the select is sent.
TrackScore(c, u, resistanceScore) ==
  /\ tr[c].pc = "idle"
  /\ tr' = [tr EXCEPT ![c] = [IdleCall EXCEPT !.pc = "read", !.user = u,
                                              !.score = resistanceScore]]
  /\ UNCHANGED <<auxVars, resistance, gen, httpVars>>

\* Lines 328-336: the select ... single() resolves. data is the row's level,
\* or null when there is no row or the datastore answered with an error
\* (the error is not looked at); newLevel is computed from it.
TrackRead(c, ok) ==
  /\ tr[c].pc = "read"
  /\ LET row == resistance[tr[c].user]
         data == IF ok /\ row # NoRow THEN row ELSE Null
     IN tr' = [tr EXCEPT ![c] = [IdleCall EXCEPT
                  !.pc = "upsert", !.user = tr[c].user, !.readOk = ok,
                  !.newLevel = NewLevel(data, tr[c].score)]]
  /\ UNCHANGED <<auxVars, resistance, gen, httpVars>>

\* Lines 338-353: the upsert resolves (stored, or refused by the datastore,
\* which the code does not look at) and the call returns newLevel.
TrackUpsert(c, ok) ==
  /\ tr[c].pc = "upsert"
  /\ resistance' = IF ok
                     THEN [resistance EXCEPT ![tr[c].user] =
                                               Some(UpsertLevel(tr[c].newLevel))]
                     ELSE resistance
  /\ tr' = [tr EXCEPT ![c] = IF ok
                               THEN [IdleCall EXCEPT !.pc = "stored",
                                                     !.user = tr[c].user,
                                                     !.newLevel = tr[c].newLevel]
                               ELSE [IdleCall EXCEPT !.pc = "failed"]]
  /\ UNCHANGED <<auxVars, gen, httpVars>>

\* The caller has the result; the slot serves the next call.
TrackReturn(c) ==
  /\ tr[c].pc \in {"stored", "failed"}
  /\ tr' = [tr EXCEPT ![c] = IdleCall]
  /\ UNCHANGED <<auxVars, resistance, gen, httpVars>>

NextResistance ==
  \/ \E c \in Calls, u \in Users, s \in ReplyScores : TrackScore(c, u, s)
  \/ \E c \in Calls, ok \in BOOLEAN : TrackRead(c, ok)
  \/ \E c \in Calls, ok \in BOOLEAN : TrackUpsert(c, ok)
  \/ \E c \in Calls : TrackReturn(c)

\* The level a row stands for: 0 when the user has no row.
LevelOf(row) == IF row = NoRow THEN 0 ELSE Val(row)

\* ------------------------------------------------------------------------
\* generateIntervention
\* ------------------------------------------------------------------------

\* this.resistanceLevels: key k is element k + 1.
resistanceLevels ==
  <<"first_contact", "gentle_nudge", "uncomfortable_truth", "brutal_reality",
    "scorched_earth", "existential_crisis">>

\* The keys of interventionGenerators.
PatternTypes ==
  {"procrastination", "pricing_cowardice", "execution_paralysis",
   "competitive_delusion", "revenue_stagnation"}

\* pattern.type of a pattern object: undefined when it has no such property
\* (the query optimizer's patterns carry pattern_type, not type).
TypeOf(pattern) == IF "type" \in DOMAIN pattern THEN Some(pattern.type) ELSE Null

\* Math.min(resistanceLevel, 5), resistanceLevel defaulting to 0 (undefined)
\* and null counting as 0.
LevelKey(resistanceLevel) ==
  IF resistanceLevel = Null THEN 0 ELSE Min(Val(resistanceLevel), 5)

\* this.resistanceLevels[key]: undefined for a key that is not 0..5.
LevelName(key) == IF key \in 0..5 THEN Some(resistanceLevels[key + 1]) ELSE Null

\* The severity the templates of a tier carry (the same for the five types).
TierSeverity(level) ==
  CASE level \in {"first_contact", "gentle_nudge"} -> "warning"
    [] level \in {"uncomfortable_truth", "brutal_reality"} -> "critical"
    [] OTHER -> "emergency"

\* The templates that read userData.businessMetrics: they throw a TypeError
\* when userData has no businessMetrics.
ReadsBusinessMetrics(type, level) ==
  \/ type = "procrastination"
       /\ level \in {"brutal_reality", "scorched_earth", "existential_crisis"}
  \/ type \in {"pricing_cowardice", "competitive_delusion"}
       /\ level \in {"brutal_reality", "scorched_earth"}
  \/ type = "execution_paralysis" /\ level = "brutal_reality"

\* defaultBrutalIntervention: 'Unrecognized pattern but the data is clear ...'
DefaultBrutalIntervention ==
  [kind |-> "default", type |-> "none", level |-> "none", severity |-> "critical"]

\* interventionGenerators[type][level](evidence, comparison, userData): the
\* template's output, named by its type and tier.
Template(type, level, userData) ==
  IF ReadsBusinessMetrics(type, level) /\ ~userData.businessMetrics
    THEN [kind |-> "TypeError", type |-> type, level |-> level, severity |-> "none"]
    ELSE [kind |-> "template", type |-> type, level |-> level,
          severity |-> TierSeverity(level)]

\* generateIntervention(pattern, evidence, userData, resistanceLevel).
\* pattern and userData are optional records, evidence an optional value.
GenerateIntervention(pattern, evidence, userData, resistanceLevel) ==
  IF pattern = Null \/ evidence = Null \/ userData = Null
    THEN [kind |-> "insufficient", type |-> "none", level |-> "none",
          severity |-> "error"]
    ELSE LET level == LevelName(LevelKey(resistanceLevel))
             type == TypeOf(Val(pattern))
         IN IF type = Null \/ level = Null \/ Val(type) \notin PatternTypes
              THEN DefaultBrutalIntervention
              ELSE Template(Val(type), Val(level), Val(userData))

\* Levels a caller passes: none (undefined), and the integers from
\* -LevelArgsBelow to MaxLevelArg.
LevelArgs == {Null} \cup {Some(l) : l \in (0 - LevelArgsBelow)..MaxLevelArg}

\* Patterns a caller passes: none, one per type, one of a type without
\* templates, and one without a type property.
PatternArgs ==
  {Null} \cup {Some([type |-> t]) : t \in PatternTypes \cup {"perfectionism"}}
         \cup {Some([pattern_type |-> "procrastination"])}

UserDataArgs ==
  {Null, Some([userId |-> "u1", businessMetrics |-> FALSE]),
         Some([userId |-> "u1", businessMetrics |-> TRUE])}

EvidenceArgs == {Null, Some("evidence")}

NoGen ==
  [called |-> FALSE, pattern |-> Null, evidence |-> Null, userData |-> Null,
   resistanceLevel |-> Null, out |-> DefaultBrutalIntervention]

\* A generateIntervention that persists the level it answers with.
Generate_Escalating(pattern, evidence, userData, resistanceLevel) ==
  /\ gen' = [called |-> TRUE, pattern |-> pattern, evidence |-> evidence,
             userData |-> userData, resistanceLevel |-> resistanceLevel,
             out |-> GenerateIntervention(pattern, evidence, userData,
                                          resistanceLevel)]
  /\ resistance' = [resistance EXCEPT !["u1"] = Some(0)]
  /\ UNCHANGED <<auxVars, tr, httpVars>>

\* A call of generateIntervention with its result.
Generate(pattern, evidence, userData, resistanceLevel) ==
  /\ gen' = [called |-> TRUE, pattern |-> pattern, evidence |-> evidence,
             userData |-> userData, resistanceLevel |-> resistanceLevel,
             out |-> GenerateIntervention(pattern, evidence, userData,
                                          resistanceLevel)]
  /\ UNCHANGED <<auxVars, resistanceVars, httpVars>>

NextGen ==
  \E p \in PatternArgs, e \in EvidenceArgs, d \in UserDataArgs, l \in LevelArgs :
    Generate(p, e, d, l)

\* ------------------------------------------------------------------------
\* BrutalQueryOptimizer: the three detectors over the datastore's answers
\* ------------------------------------------------------------------------

\* The datastore calls of an analysis, by the table or procedure they address.
DatastoreCalls ==
  {"pattern_cache.select", "get_procrastination_metrics",
   "user_business_context", "get_pricing_comparison",
   "get_execution_metrics", "pattern_cache.upsert", "user_patterns"}

\* data || {} of an rpc answer without data: every field is undefined.
NoProcrastinationMetrics == [total_delay_days |-> Undefined]

NoExecutionMetrics ==
  [planning_count |-> Undefined, shipped_count |-> Undefined,
   days_since_ship |-> Undefined, opportunity_cost |-> Undefined]

\* getDailyBurnRate: (data?.monthly_recurring_revenue || 0) / 30 || 100, data
\* being the user's user_business_context row (none: no row, or a failed call).
GetDailyBurnRate(data) ==
  LET mrr == IF data = Null THEN Undefined
             ELSE Val(data).monthly_recurring_revenue
  IN OrElse(Div(OrElse(mrr, Whole(0)), Whole(30)), Whole(100))

\* detectProcrastinationBrutally: ok is FALSE when the rpc answers with an
\* error or rejects (the detector returns null), data is the rpc's data.
DetectProcrastinationBrutally(ok, data, dailyBurn) ==
  IF ~ok THEN Null
  ELSE LET metrics == IF data = Null THEN NoProcrastinationMetrics ELSE Val(data)
           days == OrElse(metrics.total_delay_days, Whole(0))
       IN Some([pattern_type |-> "procrastination",
                confidence |-> MathMin(Div(days, Whole(30)), Num(95, 100)),
                severity |-> IF Gt(ToNumber(metrics.total_delay_days), Whole(60))
                               THEN "critical" ELSE "high",
                evidence |-> [total_delay_days |-> days,
                              daily_burn_rate |-> MathRound(dailyBurn)],
                estimated_cost |-> MathRound(Mul(days, dailyBurn))])

\* detectPricingCowardiceBrutally.
DetectPricingCowardiceBrutally(ok, data) ==
  IF ~ok \/ data = Null THEN Null
  ELSE LET d == Val(data)
           market == ToNumber(d.market_average)
           yours == ToNumber(d.your_price)
           gapPercent == Mul(Div(Sub(market, yours), market), Whole(100))
           monthlyLoss == Mul(Sub(market, yours), ToNumber(d.customer_count))
       IN Some([pattern_type |-> "pricing_cowardice",
                confidence |-> MathMin(Div(gapPercent, Whole(50)), Num(95, 100)),
                severity |-> IF Gt(gapPercent, Whole(50)) THEN "critical" ELSE "high",
                evidence |-> [your_price |-> MathRound(yours),
                              market_average |-> MathRound(market),
                              gap_percent |-> MathRound(gapPercent)],
                estimated_cost |-> MathRound(monthlyLoss)])

\* detectExecutionParalysisBrutally.
DetectExecutionParalysisBrutally(ok, data) ==
  IF ~ok THEN Null
  ELSE LET metrics == IF data = Null THEN NoExecutionMetrics ELSE Val(data)
           planToShipRatio == Div(ToNumber(metrics.planning_count),
                                  OrElse(metrics.shipped_count, Whole(1)))
       IN IF Lt(planToShipRatio, Whole(3)) THEN Null
          ELSE Some([pattern_type |-> "execution_paralysis",
                     confidence |-> MathMin(Div(planToShipRatio, Whole(10)),
                                            Num(95, 100)),
                     severity |-> IF Gt(ToNumber(metrics.days_since_ship), Whole(60))
                                    THEN "critical" ELSE "high",
                     evidence |->
                       [planned_but_not_started |->
                          OrElse(metrics.planning_count, Whole(0)),
                        projects_shipped |-> OrElse(metrics.shipped_count, Whole(0)),
                        planning_ratio |->
                          Div(MathRound(Mul(planToShipRatio, Whole(10))), Whole(10)),
                        days_blocked |-> OrElse(metrics.days_since_ship, Whole(0))],
                     estimated_cost |->
                       MathRound(OrElse(metrics.opportunity_cost, Whole(0)))])

\* Array.prototype.filter with the predicate p.value && p.value.confidence > 0.7
\* over the detectors' results, in the detectors' order.
RECURSIVE FilterConfident(_)
FilterConfident(results) ==
  IF results = <<>> THEN <<>>
  ELSE LET p == Head(results)
           rest == FilterConfident(Tail(results))
       IN IF p # Null /\ Gt(Val(p).confidence, Num(7, 10))
            THEN <<Val(p)>> \o rest ELSE rest

\* One step of the stable sort with comparator b.estimated_cost -
\* a.estimated_cost: x goes before the first element of lower cost.
RECURSIVE InsertByCost(_, _)
InsertByCost(x, sorted) ==
  IF sorted = <<>> THEN <<x>>
  ELSE IF Gt(x.estimated_cost, Head(sorted).estimated_cost)
         THEN <<x>> \o sorted
         ELSE <<Head(sorted)>> \o InsertByCost(x, Tail(sorted))

\* patterns.sort((a, b) => b.estimated_cost - a.estimated_cost)
RECURSIVE SortByCost(_)
SortByCost(patterns) ==
  IF patterns = <<>> THEN <<>>
  ELSE InsertByCost(patterns[Len(patterns)],
                    SortByCost(SubSeq(patterns, 1, Len(patterns) - 1)))

\* The results of the three detectors of detectAllPatternsBrutally (local
\* hosting), in the order they are started. answers holds the datastore's
\* data per call, failed the calls that fail.
DetectorResults(answers, failed) ==
  LET context == IF "user_business_context" \in failed THEN Null
                 ELSE answers.context
      dailyBurn == GetDailyBurnRate(context)
  IN <<DetectProcrastinationBrutally(
         "get_procrastination_metrics" \notin failed, answers.procrastination,
         dailyBurn),
       DetectPricingCowardiceBrutally(
         "get_pricing_comparison" \notin failed, answers.pricing),
       DetectExecutionParalysisBrutally(
         "get_execution_metrics" \notin failed, answers.execution)>>

\* detectedPatterns: the results filtered and sorted.
DetectedPatterns(answers, failed) ==
  SortByCost(FilterConfident(DetectorResults(answers, failed)))

\* The datastore's answers to the calls of one analysis: the data of the three
\* rpcs and the user's user_business_context row.
NoAnswers ==
  [procrastination |-> Null, context |-> Null, pricing |-> Null,
   execution |-> Null]

Delayed(days) == Some([total_delay_days |-> Whole(days)])

Revenue(mrr) == Some([monthly_recurring_revenue |-> Whole(mrr)])

Priced(market, yours, customers) ==
  Some([market_average |-> Whole(market), your_price |-> Whole(yours),
        customer_count |-> Whole(customers)])

Planned(planning, shipped, days, cost) ==
  Some([planning_count |-> Whole(planning), shipped_count |-> Whole(shipped),
        days_since_ship |-> Whole(days), opportunity_cost |-> Whole(cost)])

Fixtures ==
  { NoAnswers,
    [NoAnswers EXCEPT !.procrastination = Delayed(84)],
    [NoAnswers EXCEPT !.procrastination = Delayed(84),
                      !.pricing = Priced(100, 60, 500)],
    [NoAnswers EXCEPT !.procrastination = Delayed(45),
                      !.pricing = Priced(100, 40, 200)],
    [NoAnswers EXCEPT !.pricing = Priced(100, 120, 10)],
    [NoAnswers EXCEPT !.execution = Planned(9, 0, 90, 5000)],
    [NoAnswers EXCEPT !.procrastination = Delayed(20),
                      !.execution = Planned(8, 1, 30, 700)],
    [procrastination |-> Delayed(84), context |-> Revenue(3000),
     pricing |-> Priced(100, 40, 200), execution |-> Planned(9, 0, 90, 5000)] }

\* The sets of calls that fail during a request: none, all (the datastore is
\* down), and a single procedure or table.
FailureSets ==
  { {}, DatastoreCalls, {"get_procrastination_metrics"}, {"user_patterns"} }

\* The detectors' results and the detected patterns per answers and failed
\* calls (the detection is a function of the two).
DetectionTable ==
  [answers \in Fixtures, failed \in FailureSets |->
     [results |-> DetectorResults(answers, failed),
      patterns |-> DetectedPatterns(answers, failed)]]

\* The userId and message fields of a request body.
UserIdArgs == {Null, Some("")} \cup {Some(u) : u \in Users}

MessageArgs == {Null, Some(""), Some("I will launch tomorrow")}

\* ------------------------------------------------------------------------
\* handleAnalyze (api/analyze.js) and the realtime pattern check (index.js)
\* ------------------------------------------------------------------------

\* !v of a request field: absent, null and '' are falsy.
Falsy(v) == IF v = Null THEN TRUE ELSE Val(v) = ""

\* getCachedPatterns: the user's pattern_cache row, null without a row or when
\* the select fails.
GetCachedPatterns(row, failed) ==
  IF "pattern_cache.select" \in failed THEN Null ELSE row

\* A detectAllPatternsBrutally that returns the cached result whatever its
\* age.
DetectAllPatternsBrutally_NoExpiry(row, answers, failed) ==
  LET cached == GetCachedPatterns(row, failed)
  IN IF cached # Null
       THEN [result |-> Val(cached).data, detectorsRun |-> FALSE,
             results |-> <<>>, caught |-> FALSE, stale |-> ~Val(cached).fresh,
             fromCache |-> TRUE]
     ELSE IF "detectPatternsQueued" \in failed
       THEN [result |-> [patterns |-> <<>>, cached |-> FALSE],
             detectorsRun |-> FALSE, results |-> <<>>, caught |-> TRUE,
             stale |-> FALSE, fromCache |-> FALSE]
       ELSE [result |-> [patterns |-> DetectionTable[answers, failed].patterns,
                         cached |-> FALSE],
             detectorsRun |-> TRUE,
             results |-> DetectionTable[answers, failed].results,
             caught |-> FALSE, stale |-> FALSE, fromCache |-> FALSE]

\* A detectAllPatternsBrutally whose detector run finds nothing once the user
\* has an expired cached row.
DetectAllPatternsBrutally_Sticky(row, answers, failed) ==
  LET cached == GetCachedPatterns(row, failed)
  IN IF cached # Null /\ Val(cached).fresh
       THEN [result |-> Val(cached).data, detectorsRun |-> FALSE,
             results |-> <<>>, caught |-> FALSE, stale |-> FALSE,
             fromCache |-> TRUE]
       ELSE [result |-> IF cached # Null
                          THEN [patterns |-> <<>>, cached |-> FALSE]
                          ELSE [patterns |-> DetectionTable[answers, failed].patterns,
                                cached |-> FALSE],
             detectorsRun |-> TRUE,
             results |-> DetectionTable[answers, failed].results,
             caught |-> FALSE, stale |-> FALSE, fromCache |-> FALSE]

\* detectAllPatternsBrutally: a fresh cached result is returned as stored;
\* otherwise the detectors run and the result is cached. With
\* process.env.VERCEL the detection is handed to pooler.detectPatternsQueued
\* (vercel-connection-pooler.js): "detectPatternsQueued" in failed stands for
\* that call rejecting, which the catch answers with the cached data, not
\* looking at its timestamp, or with no patterns. caught tells that the
\* catch answered, stale that the result is cached data whose age has
\* reached cacheExpiry, fromCache that the result is the data of the
\* pattern_cache row.
DetectAllPatternsBrutally(row, answers, failed) ==
  LET cached == GetCachedPatterns(row, failed)
  IN IF cached # Null /\ Val(cached).fresh
       THEN [result |-> Val(cached).data, detectorsRun |-> FALSE,
             results |-> <<>>, caught |-> FALSE, stale |-> ~Val(cached).fresh,
             fromCache |-> TRUE]
     ELSE IF "detectPatternsQueued" \in failed
       THEN [result |-> IF cached # Null THEN Val(cached).data
                        ELSE [patterns |-> <<>>, cached |-> FALSE],
             detectorsRun |-> FALSE, results |-> <<>>, caught |-> TRUE,
             stale |-> cached # Null /\ ~Val(cached).fresh,
             fromCache |-> cached # Null]
       ELSE [result |-> [patterns |-> DetectionTable[answers, failed].patterns,
                         cached |-> FALSE],
             detectorsRun |-> TRUE,
             results |-> DetectionTable[answers, failed].results,
             caught |-> FALSE, stale |-> FALSE, fromCache |-> FALSE]

\* cachePatterns: the row after detectAllPatternsBrutally.
CachePatterns(row, detection, failed) ==
  IF detection.detectorsRun /\ "pattern_cache.upsert" \notin failed
    THEN Some([data |-> detection.result, fresh |-> TRUE])
    ELSE row

\* patterns.find(p => p.severity === 'critical')
RECURSIVE FindCritical(_)
FindCritical(patterns) ==
  IF patterns = <<>> THEN Null
  ELSE IF Head(patterns).severity = "critical" THEN Some(Head(patterns))
  ELSE FindCritical(Tail(patterns))

\* getUserResistanceLevel of api/analyze.js: data?.pattern_data?.level || 0.
GetUserResistanceLevel(row, failed) ==
  IF "user_patterns" \in failed \/ row = NoRow THEN 0 ELSE Val(row)

\* getUserResistanceLevel of index.js: the cache entry 'resistance:<user>',
\* filled by the fallback { level: 0, lastEscalation: null } on a miss, so
\* cached.level || 0 is 0 on a hit and on a miss.
ServerGetUserResistanceLevel(row) == 0

\* intervention.tracking_id is defined: the engine's interventions carry
\* tracking_id: uuidv4(), the objects BrutalInterventionGenerator returns have
\* no such property.
HasTrackingId(intervention) == intervention.kind = "neutral"

\* patterns.patterns?.[0]?.confidence || 0
FirstConfidence(patterns) ==
  IF patterns = <<>> THEN Whole(0) ELSE OrElse(patterns[1].confidence, Whole(0))

NoResponse ==
  [seq |-> 0, endpoint |-> "none", status |-> 0, userId |-> Null,
   message |-> Null, error |-> FALSE, patterns |-> <<>>, intervention |-> Null,
   confidence |-> Whole(0), should_intervene |-> FALSE, cached |-> FALSE,
   detectorsRun |-> FALSE, results |-> <<>>, answers |-> Null, failed |-> {},
   event |-> "none", generated |-> Null, resistance_level |-> 0,
   templated |-> Null, failure |-> [calls |-> {}, kind |-> "ok"],
   caught |-> FALSE, stale |-> FALSE, fromCache |-> FALSE]

\* The response to a request: the fields a handler does not send keep the
\* values of NoResponse; seq tells two equal responses in a row apart.
Response(endpoint, status, userId, message) ==
  [NoResponse EXCEPT !.seq = 1 - resp.seq, !.endpoint = endpoint,
                     !.status = status, !.userId = userId, !.message = message]

\* The answers and failed calls a handler's output is recorded with: those
\* of the detection when the detectors ran, none on a cache hit.
Asked(detection, answers) == IF detection.detectorsRun THEN Some(answers) ELSE Null

AskedFailed(detection, failed) == IF detection.detectorsRun THEN failed ELSE {}

\* The validation of handleAnalyze accepting a body without a message.
MissingFields_UserIdOnly(userId, message) == Falsy(userId)

\* !userId || !message
MissingFields(userId, message) == Falsy(userId) \/ Falsy(message)

\* handleAnalyze for the body {userId, message}, the datastore answering the
\* request's calls with answers, the calls in failed failing.
HandleAnalyze(userId, message, answers, failed) ==
  IF MissingFields(userId, message)
  THEN /\ resp' = [Response("api", 400, userId, message) EXCEPT !.error = TRUE]
       /\ UNCHANGED <<auxVars, resistanceVars, gen, pattern_cache, engineVars>>
  ELSE LET u == Val(userId)
           detection == DetectAllPatternsBrutally(pattern_cache[u], answers, failed)
           patterns == detection.result.patterns
           criticalPattern == FindCritical(patterns)
           resistanceLevel == GetUserResistanceLevel(resistance[u], failed)
           intervention ==
             IF criticalPattern = Null THEN Null
             ELSE Some(GenerateIntervention(
                    criticalPattern, Some(Val(criticalPattern).evidence),
                    Some([userId |-> u, businessMetrics |-> FALSE]),
                    Some(resistanceLevel)))
           threw == intervention # Null /\ Val(intervention).kind = "TypeError"
       IN /\ pattern_cache' =
               [pattern_cache EXCEPT ![u] = CachePatterns(@, detection, failed)]
          /\ resp' =
               IF threw
               THEN [Response("api", 500, userId, message) EXCEPT
                       !.error = TRUE, !.detectorsRun = detection.detectorsRun,
                       !.results = detection.results,
                       !.answers = Asked(detection, answers),
                       !.failed = AskedFailed(detection, failed),
                       !.resistance_level =
                          IF criticalPattern = Null THEN 0 ELSE resistanceLevel,
                       !.caught = detection.caught, !.stale = detection.stale]
               ELSE [Response("api", 200, userId, message) EXCEPT
                       !.patterns = patterns,
                       !.intervention = intervention,
                       !.templated = criticalPattern,
                       !.confidence = FirstConfidence(patterns),
                       !.should_intervene = intervention # Null,
                       !.cached = detection.result.cached,
                       !.detectorsRun = detection.detectorsRun,
                       !.results = detection.results,
                       !.answers = Asked(detection, answers),
                       !.failed = AskedFailed(detection, failed),
                       !.resistance_level =
                          IF criticalPattern = Null THEN 0 ELSE resistanceLevel,
                       !.caught = detection.caught, !.stale = detection.stale,
                       !.fromCache = detection.fromCache]
          /\ UNCHANGED <<auxVars, resistanceVars, gen, engineVars>>

\* One run of the realtime connection's pattern check for a user: event is
\* the event written to the connection, 'none' when nothing is written.
PatternCheck(u, answers, failed) ==
  LET detection == DetectAllPatternsBrutally(pattern_cache[u], answers, failed)
      patterns == detection.result.patterns
      criticalPattern == FindCritical(patterns)
      resistanceLevel == ServerGetUserResistanceLevel(resistance[u])
      check == [Response("realtime", 200, Some(u), Null) EXCEPT
                  !.patterns = patterns,
                  !.detectorsRun = detection.detectorsRun,
                  !.results = detection.results,
                  !.answers = Asked(detection, answers),
                  !.failed = AskedFailed(detection, failed),
                  !.caught = detection.caught, !.stale = detection.stale,
                  !.fromCache = detection.fromCache]
  IN /\ pattern_cache' =
          [pattern_cache EXCEPT ![u] = CachePatterns(@, detection, failed)]
     /\ resp' =
          IF patterns = <<>> THEN check
          ELSE IF criticalPattern = Null
            THEN [check EXCEPT !.event = "pattern_detected"]
          \* this.abTester.trackInterventionDelivery is not a function: the
          \* TypeError is caught and no event is written.
          ELSE [check EXCEPT
                  !.generated =
                     Some(GenerateIntervention(
                       criticalPattern, Some(Val(criticalPattern).evidence),
                       Some([userId |-> u, businessMetrics |-> FALSE]),
                       Some(resistanceLevel))),
                  !.resistance_level = resistanceLevel,
                  !.templated = criticalPattern,
                  !.error = TRUE]
     /\ UNCHANGED <<effectiveness, out, hf, run, breaker, detected,
                    circuitBreakers, cb, client, lru, app, resistanceVars, gen,
                    engineVars>>

\* Time passes beyond cacheExpiry: a fresh pattern_cache row becomes stale.
ExpireCache(u) ==
  /\ pattern_cache[u] # NoRow
  /\ Val(pattern_cache[u]).fresh
  /\ pattern_cache' = [pattern_cache EXCEPT ![u] = Some([Val(@) EXCEPT !.fresh = FALSE])]
  /\ UNCHANGED <<auxVars, resistanceVars, gen, resp, engineVars>>

\* A whole trackResistance call without another call in between.
TrackResistance(u, resistanceScore, readOk, upsertOk) ==
  LET data == IF readOk THEN resistance[u] ELSE Null
      newLevel == NewLevel(data, resistanceScore)
  IN /\ resistance' = IF upsertOk
                        THEN [resistance EXCEPT ![u] = Some(UpsertLevel(newLevel))]
                        ELSE resistance
     /\ UNCHANGED <<auxVars, tr, gen, httpVars>>

\* ------------------------------------------------------------------------
\* GET /api/realtime/:userId of index.js: one response and its intervals
\* ------------------------------------------------------------------------

\* The response after the route handler has run: both intervals are set and
\* nothing is written. inFlight counts the pattern checks that await
\* detectAllPatternsBrutally; written is the last write, afterClose whether it
\* was made after the request's 'close', startedAfterClose whether a pattern
\* check was started after it.
OpenStream ==
  [closed |-> FALSE, checking |-> TRUE, beating |-> TRUE, inFlight |-> 0,
   written |-> "none", afterClose |-> FALSE, startedAfterClose |-> FALSE]

\* patternCheckInterval fires (every 2 s while it is set): a pattern check
\* starts and awaits detectAllPatternsBrutally; earlier checks may still run.
StreamCheckStarts ==
  /\ stream.checking
  /\ stream.inFlight < MaxChecks
  /\ stream' = [stream EXCEPT !.inFlight = @ + 1,
                              !.startedAfterClose = @ \/ stream.closed]
  /\ UNCHANGED <<app, lru, client, cb, circuitBreakers, serverVars>>

\* A pattern check in flight goes on after its await and writes its event, if
\* it has one, to the response.
StreamCheckEnds(answers, failed) ==
  /\ stream.inFlight > 0
  /\ PatternCheck("u1", answers, failed)
  /\ stream' = [stream EXCEPT
                  !.inFlight = @ - 1,
                  !.written = IF resp'.event = "none" THEN @ ELSE resp'.event,
                  !.afterClose = IF resp'.event = "none" THEN @
                                 ELSE stream.closed]

\* The heartbeat interval fires (every 30 s while it is set).
StreamHeartbeat ==
  /\ stream.beating
  /\ stream' = [stream EXCEPT !.written = "heartbeat",
                              !.afterClose = stream.closed]
  /\ UNCHANGED <<app, lru, client, cb, circuitBreakers, serverVars>>

\* req.on('close'): both intervals are cleared.
StreamClose ==
  /\ ~stream.closed
  /\ stream' = [stream EXCEPT !.closed = TRUE, !.checking = FALSE,
                              !.beating = FALSE]
  /\ UNCHANGED <<app, lru, client, cb, circuitBreakers, serverVars>>

\* ------------------------------------------------------------------------
\* The inference endpoint: HuggingFaceFallback and BehavioralMLEngine
\* ------------------------------------------------------------------------

\* fallbackResponses: the keywords, confidence and pattern per pattern type.
fallbackResponses ==
  [procrastination |->
     [keywords |-> {"tomorrow", "later", "when i", "maybe", "planning",
                    "thinking about"},
      confidence |-> Num(8, 10), pattern |-> "PROCRASTINATION_DETECTED"],
   pricing_cowardice |->
     [keywords |-> {"too expensive", "cheap", "free", "discount", "price point"},
      confidence |-> Num(7, 10), pattern |-> "PRICING_FEAR_DETECTED"],
   execution_paralysis |->
     [keywords |-> {"perfect", "research", "more info", "not ready", "need to"},
      confidence |-> Num(75, 100), pattern |-> "EXECUTION_PARALYSIS_DETECTED"]]

\* fallbackDetection(message, patternType); a message is given by the
\* keywords its lower-case text includes.
FallbackDetection(message, patternType) ==
  IF patternType \notin DOMAIN fallbackResponses THEN Null
  ELSE LET fallback == fallbackResponses[patternType]
           matches == fallback.keywords \cap message
       IN IF matches # {}
            THEN Some([pattern |-> fallback.pattern,
                       confidence |->
                         Mul(fallback.confidence,
                             Num(Cardinality(matches),
                                 Cardinality(fallback.keywords))),
                       method |-> "FALLBACK_RULES",
                       keywords_matched |-> matches])
            ELSE Null

\* huggingFaceDetection(message, patternType) when it resolves.
HuggingFaceDetection(patternType) ==
  Some([pattern |-> CASE patternType = "procrastination" -> "PROCRASTINATION_DETECTED"
                      [] patternType = "pricing_cowardice" -> "PRICING_COWARDICE_DETECTED"
                      [] patternType = "execution_paralysis" -> "EXECUTION_PARALYSIS_DETECTED"
                      [] OTHER -> "REVENUE_STAGNATION_DETECTED",
        confidence |-> Num(85, 100),
        method |-> "HUGGINGFACE_ML", keywords_matched |-> {}])

\* A detectPattern that lets the rejection of huggingFaceDetection through.
DetectPatternResult_NoCatch(isHFHealthy, detectOk, message, patternType) ==
  IF ~isHFHealthy
    THEN [threw |-> FALSE, isHFHealthy |-> FALSE,
          result |-> FallbackDetection(message, patternType)]
  ELSE IF detectOk
    THEN [threw |-> FALSE, isHFHealthy |-> TRUE,
          result |-> HuggingFaceDetection(patternType)]
  ELSE [threw |-> TRUE, isHFHealthy |-> TRUE, result |-> Null]

\* detectPattern after its health check: isHFHealthy is the flag the check
\* left, detectOk tells whether huggingFaceDetection resolves.
DetectPatternResult(isHFHealthy, detectOk, message, patternType) ==
  IF ~isHFHealthy
    THEN [threw |-> FALSE, isHFHealthy |-> FALSE,
          result |-> FallbackDetection(message, patternType)]
  ELSE IF detectOk
    THEN [threw |-> FALSE, isHFHealthy |-> TRUE,
          result |-> HuggingFaceDetection(patternType)]
  ELSE [threw |-> FALSE, isHFHealthy |-> FALSE,
        result |-> FallbackDetection(message, patternType)]

NoDetect ==
  [isHFHealthy |-> TRUE, checkDue |-> TRUE, called |-> FALSE,
   message |-> {}, patternType |-> "none", failed |-> FALSE, threw |-> FALSE,
   result |-> Null]

\* detectPattern(message, patternType): probeOk and detectOk tell whether the
\* health check's call and the detection's call of the endpoint resolve.
DetectPattern(message, patternType, probeOk, detectOk) ==
  LET checked == IF hf.checkDue THEN probeOk ELSE hf.isHFHealthy
      outcome == DetectPatternResult(checked, detectOk, message, patternType)
  IN /\ hf' = [isHFHealthy |-> outcome.isHFHealthy, checkDue |-> FALSE,
               called |-> TRUE, message |-> message,
               patternType |-> patternType,
               failed |-> (hf.checkDue /\ ~probeOk) \/ (checked /\ ~detectOk),
               threw |-> outcome.threw, result |-> outcome.result]
     /\ UNCHANGED <<stream, app, lru, client, cb, circuitBreakers, detected, breaker, effectiveness, out, run, resistanceVars, gen, httpVars>>

\* healthCheckInterval passes since the last health check.
HealthCheckDue ==
  /\ ~hf.checkDue
  /\ hf' = [hf EXCEPT !.checkDue = TRUE]
  /\ UNCHANGED <<stream, app, lru, client, cb, circuitBreakers, detected, breaker, effectiveness, out, run, resistanceVars, gen, httpVars>>

\* getPredictions: generateUserEmbeddings answers null without messages and
\* when the endpoint fails, classifyPatterns [] without embeddings and when
\* the endpoint fails, generateInterventionML null without predictions and
\* when the endpoint fails; the catch around the three answers
\* { predictions: [], models_used: [] }.
GetPredictions(cached, hasMessages, inferenceOk) ==
  LET embeddings ==
        IF cached THEN Some("embeddings")
        ELSE IF ~hasMessages THEN Null
        ELSE IF inferenceOk THEN Some("embeddings") ELSE Null
      patternPredictions ==
        IF embeddings = Null THEN <<>>
        ELSE IF inferenceOk THEN <<"procrastination", "perfectionism">> ELSE <<>>
      suggestions ==
        IF patternPredictions = <<>> THEN Null
        ELSE IF inferenceOk THEN Some("generated_text") ELSE Null
  IN [threw |-> FALSE, predictions |-> patternPredictions,
      suggestions |-> suggestions, models_used |-> 2]

\* ------------------------------------------------------------------------
\* RealTimeBehavioralIntelligence: the five detectors
\* ------------------------------------------------------------------------

RECURSIVE SumSeq(_)
SumSeq(q) == IF q = <<>> THEN 0 ELSE Head(q) + SumSeq(Tail(q))

RECURSIVE SumNum(_)
SumNum(q) == IF q = <<>> THEN Whole(0) ELSE Add(Head(q), SumNum(Tail(q)))

\* The average of a non-empty sequence of numbers.
Mean(q) == Div(SumNum(q), Whole(Len(q)))

\* analyzeTaskDelays: delays holds, oldest task first, the whole days between
\* now and created_at of the user's open tasks.
AnalyzeTaskDelays(delays) ==
  IF delays = <<>>
    THEN [hasDelays |-> FALSE, delayScore |-> Whole(0), delayDays |-> Undefined]
    ELSE LET totalDelayDays == SumSeq(delays)
             avgDelay == Num(totalDelayDays, Len(delays))
         IN [hasDelays |-> TRUE,
             delayScore |-> MathMin(Div(avgDelay, Whole(30)), Whole(1)),
             delayDays |-> Whole(totalDelayDays)]

\* analyzeLanguagePatterns: messages holds the counts of future and action
\* words over the user's last messages, none without messages.
AnalyzeLanguagePatterns(messages) ==
  IF messages = Null
    THEN [futureFocused |-> FALSE, futureScore |-> Whole(0)]
    ELSE LET futureCount == Val(messages).futureCount
             actionCount == Val(messages).actionCount
             futureRatio == Div(Whole(futureCount),
                                OrElse(Whole(futureCount + actionCount), Whole(1)))
         IN [futureFocused |-> Gt(futureRatio, Num(6, 10)),
             futureScore |-> futureRatio]

\* ProcrastinationDetector.detect
ProcrastinationDetect(answers, businessMetrics) ==
  LET taskDelays == AnalyzeTaskDelays(answers.openTaskDelays)
      languagePatterns == AnalyzeLanguagePatterns(answers.messages)
      confidence == Div(Add(taskDelays.delayScore, languagePatterns.futureScore),
                        Whole(2))
  IN IF ~taskDelays.hasDelays /\ ~languagePatterns.futureFocused THEN Null
     ELSE Some([confidence |-> confidence,
                severity |-> IF Gt(confidence, Num(8, 10)) THEN "critical"
                             ELSE IF Gt(confidence, Num(6, 10)) THEN "high"
                             ELSE "medium",
                estimated_cost |->
                  Mul(ToNumber(taskDelays.delayDays),
                      Div(businessMetrics.current_mrr, Whole(30))),
                evidence |-> [total_delay_days |-> taskDelays.delayDays]])

\* comparePricing: competitors are records of monthly_recurring_revenue and
\* product_count.
ComparePricing(userMetrics, competitors) ==
  LET userAvgPrice == Div(userMetrics.current_mrr,
                          OrElse(userMetrics.product_count, Whole(1)))
      Counted(c) == c.monthly_recurring_revenue # 0 /\ c.product_count # 0
      competitorPrices ==
        [i \in 1..Len(SelectSeq(competitors, Counted)) |->
           LET c == SelectSeq(competitors, Counted)[i]
           IN Num(c.monthly_recurring_revenue, c.product_count)]
      marketAvg == Mean(competitorPrices)
      gapPercent == Mul(Div(Sub(marketAvg, userAvgPrice), marketAvg), Whole(100))
  IN IF competitors = <<>> \/ competitorPrices = <<>>
       THEN [underpriced |-> FALSE]
       ELSE [underpriced |-> Gt(gapPercent, Whole(20)),
             confidence |-> MathMin(Div(gapPercent, Whole(100)), Num(95, 100)),
             yourPrice |-> MathRound(userAvgPrice),
             marketAvg |-> MathRound(marketAvg),
             gapPercent |-> MathRound(gapPercent),
             monthlyLoss |-> Mul(Sub(marketAvg, userAvgPrice),
                                 OrElse(userMetrics.product_count, Whole(1)))]

\* PricingCowardiceDetector.detect
PricingCowardiceDetect(businessMetrics, competitors) ==
  IF ~Truthy(businessMetrics.current_mrr)
       /\ ~Truthy(businessMetrics.avg_transaction_value)
    THEN Null
  ELSE LET priceComparison == ComparePricing(businessMetrics, competitors)
       IN IF ~priceComparison.underpriced THEN Null
          ELSE Some([confidence |-> priceComparison.confidence,
                     severity |-> IF Gt(priceComparison.gapPercent, Whole(50))
                                    THEN "critical" ELSE "high",
                     estimated_cost |-> priceComparison.monthlyLoss,
                     evidence |-> [your_price |-> priceComparison.yourPrice,
                                   market_average |-> priceComparison.marketAvg,
                                   gap_percent |-> priceComparison.gapPercent]])

\* calculatePlanningToExecutionRatio over the counts of the user's planning
\* tasks and of the execution tasks that were used.
CalculatePlanningToExecutionRatio(plannedCount, executedCount) ==
  LET ratio == Div(Whole(plannedCount), OrElse(Whole(executedCount), Whole(1)))
  IN [ratio |-> Div(MathRound(Mul(ratio, Whole(10))), Whole(10)),
      plannedCount |-> plannedCount,
      executedCount |-> executedCount,
      confidence |-> MathMin(Div(Whole(plannedCount), Whole(10)), Num(9, 10))]

\* identifyBlockers: blockers holds the number of blocker rows (at most 20)
\* and the whole days since the latest one, none without rows.
IdentifyBlockers(blockers) ==
  IF blockers = Null
    THEN [hasBlockers |-> FALSE, confidence |-> Whole(0),
          daysSinceExecution |-> Undefined]
    ELSE [hasBlockers |-> TRUE,
          confidence |-> MathMin(Div(Whole(Val(blockers).count), Whole(20)),
                                 Num(9, 10)),
          daysSinceExecution |-> Whole(Val(blockers).daysSince)]

\* ExecutionParalysisDetector.detect
ExecutionParalysisDetect(answers, businessMetrics) ==
  LET planningRatio ==
        CalculatePlanningToExecutionRatio(answers.plannedCount,
                                          answers.executedCount)
      blockers == IdentifyBlockers(answers.blockers)
  IN IF Lt(planningRatio.ratio, Whole(3)) /\ ~blockers.hasBlockers THEN Null
     ELSE Some([confidence |-> Div(Add(planningRatio.confidence,
                                       blockers.confidence), Whole(2)),
                severity |-> IF Gt(ToNumber(blockers.daysSinceExecution), Whole(30))
                               THEN "critical" ELSE "high",
                estimated_cost |->
                  Mul(ToNumber(blockers.daysSinceExecution),
                      Div(businessMetrics.current_mrr, Whole(30))),
                evidence |->
                  [planning_to_execution_ratio |-> planningRatio.ratio,
                   planned_but_not_started |-> planningRatio.plannedCount,
                   days_blocked |-> blockers.daysSinceExecution]])

\* calculateRanking: the user's rank among the competitors' revenues and its
\* own, sorted descending (indexOf finds the first equal revenue).
CalculateRanking(userMetrics, competitors) ==
  LET above == {i \in 1..Len(competitors) :
                  Gt(Whole(competitors[i].monthly_recurring_revenue),
                     userMetrics.current_mrr)}
      rank == Cardinality(above) + 1
  IN [rank |-> rank,
      percentile |-> MathRound(Mul(Num(rank, Len(competitors) + 1), Whole(100)))]

\* CompetitiveDelusionDetector.detect
CompetitiveDelusionDetect(businessMetrics, competitors) ==
  IF Len(competitors) < 5 THEN Null
  ELSE LET ranking == CalculateRanking(businessMetrics, competitors)
           avgTopRevenue ==
             Num(SumSeq([i \in 1..3 |-> competitors[i].monthly_recurring_revenue]), 3)
           revenueGap == Sub(avgTopRevenue, businessMetrics.current_mrr)
       IN IF Gt(ranking.percentile, Whole(50)) THEN Null
          ELSE Some([confidence |-> Num(85, 100),
                     severity |-> IF Lt(ranking.percentile, Whole(20))
                                    THEN "critical" ELSE "high",
                     estimated_cost |-> revenueGap,
                     evidence |-> [your_rank |-> ranking.rank,
                                   total_competitors |-> Len(competitors),
                                   percentile |-> ranking.percentile]])

\* Math.pow(1.1, n) for n in 0..12, in thousandths, rounded to the nearest.
PowerOfGrowth ==
  <<1000, 1100, 1210, 1331, 1464, 1611, 1772, 1949, 2144, 2358, 2594, 2853, 3138>>

AbsNum(x) == <<Abs(x[1]), x[2]>>

\* analyzeStagnation over the revenue history, latest first. stdDev / avg <
\* 0.15 is decided on the squares (variance < 0.0225 avg^2 for a positive avg;
\* a negative avg makes the quotient negative, a zero avg infinite or NaN).
AnalyzeStagnation(revenueHistory) ==
  LET n == Len(revenueHistory)
      currentRevenue == Whole(revenueHistory[1])
      avgRevenue == Num(SumSeq(revenueHistory), n)
      variance ==
        Div(SumNum([i \in 1..n |->
                      LET dev == Sub(Whole(revenueHistory[i]), avgRevenue)
                      IN Mul(dev, dev)]),
            Whole(n))
      lowVolatility ==
        IF avgRevenue[1] > 0
          THEN Lt(variance, Mul(Num(225, 10000), Mul(avgRevenue, avgRevenue)))
          ELSE avgRevenue[1] < 0
      stagnantMonths ==
        Cardinality({i \in 1..n :
          Lt(Div(AbsNum(Sub(Whole(revenueHistory[i]), avgRevenue)), avgRevenue),
             Num(1, 10))})
      isStagnant == lowVolatility
                      /\ ~Lt(Whole(stagnantMonths), Mul(Whole(n), Num(7, 10)))
      monthsStagnant == IF isStagnant THEN stagnantMonths ELSE 0
      potentialRevenue ==
        Mul(currentRevenue, Num(PowerOfGrowth[monthsStagnant + 1], 1000))
  IN [isStagnant |-> isStagnant,
      confidence |-> IF isStagnant
                       THEN MathMin(Num(monthsStagnant, 12), Num(9, 10))
                       ELSE Whole(0),
      monthsStagnant |-> monthsStagnant,
      currentRevenue |-> MathRound(currentRevenue),
      opportunityCost |-> Mul(Sub(potentialRevenue, currentRevenue),
                              Whole(monthsStagnant))]

\* RevenueStagnationDetector.detect
RevenueStagnationDetect(businessMetrics) ==
  IF Len(businessMetrics.revenue_history) < 3 THEN Null
  ELSE LET stagnation == AnalyzeStagnation(businessMetrics.revenue_history)
       IN IF ~stagnation.isStagnant THEN Null
          ELSE Some([confidence |-> stagnation.confidence,
                     severity |-> IF stagnation.monthsStagnant > 6
                                    THEN "critical" ELSE "high",
                     estimated_cost |-> stagnation.opportunityCost,
                     evidence |-> [months_stagnant |-> stagnation.monthsStagnant,
                                   current_revenue |-> stagnation.currentRevenue]])

\* getBusinessTruth: context is the user's user_business_context row,
\* revenues the revenue_after_use values of the task history, latest first
\* (a user without business:saas row).
GetBusinessTruth(context, revenues) ==
  [current_mrr |->
     IF context = Null THEN Whole(0)
     ELSE OrElse(Whole(Val(context).monthly_recurring_revenue), Whole(0)),
   avg_transaction_value |->
     IF revenues = <<>> THEN Whole(0) ELSE Num(SumSeq(revenues), Len(revenues)),
   product_count |->
     IF context = Null THEN Whole(0)
     ELSE OrElse(Whole(Val(context).product_count), Whole(0)),
   revenue_history |-> SubSeq(revenues, 1, Min(Len(revenues), 12))]

\* getCompetitiveReality: no competitors are looked up for a user without a
\* user_business_context row.
GetCompetitiveReality(context, competitors) ==
  IF context = Null THEN <<>> ELSE competitors

\* getUserBehavioralProfile: signals counts the user's user_patterns rows, its
\* verified predictions and those of them with confidence > 0.7.
BehavioralProfile(signals) ==
  [total_signals |-> signals.patterns + signals.predictions,
   prediction_accuracy |->
     IF signals.predictions = 0 THEN Whole(0)
     ELSE Num(signals.accurate, signals.predictions)]

\* The detectors' results in the order of this.patternDetectors.
EngineDetectorResults(answers, businessMetrics, competitors) ==
  << [type |-> "procrastination",
      result |-> ProcrastinationDetect(answers, businessMetrics)],
     [type |-> "pricing_cowardice",
      result |-> PricingCowardiceDetect(businessMetrics, competitors)],
     [type |-> "execution_paralysis",
      result |-> ExecutionParalysisDetect(answers, businessMetrics)],
     [type |-> "competitive_delusion",
      result |-> CompetitiveDelusionDetect(businessMetrics, competitors)],
     [type |-> "revenue_stagnation",
      result |-> RevenueStagnationDetect(businessMetrics)] >>

\* The forEach of detectDataDrivenPatterns: the results with confidence > 0.7
\* (and evidence), as patterns.
RECURSIVE ConfidentPatterns(_)
ConfidentPatterns(detectionResults) ==
  IF detectionResults = <<>> THEN <<>>
  ELSE LET type == Head(detectionResults).type
           result == Head(detectionResults).result
           rest == ConfidentPatterns(Tail(detectionResults))
       IN IF result # Null /\ Gt(Val(result).confidence, Num(7, 10))
            THEN <<[type |-> type,
                    severity |-> Val(result).severity,
                    confidence |-> Val(result).confidence,
                    evidence |-> Val(result).evidence,
                    cost |-> OrElse(Val(result).estimated_cost, Whole(0))]>>
                 \o rest
            ELSE rest

\* One step of patterns.sort((a, b) => b.cost - a.cost).
RECURSIVE InsertByImpact(_, _)
InsertByImpact(x, sorted) ==
  IF sorted = <<>> THEN <<x>>
  ELSE IF Gt(x.cost, Head(sorted).cost) THEN <<x>> \o sorted
  ELSE <<Head(sorted)>> \o InsertByImpact(x, Tail(sorted))

RECURSIVE SortByImpact(_)
SortByImpact(patterns) ==
  IF patterns = <<>> THEN <<>>
  ELSE InsertByImpact(patterns[Len(patterns)],
                      SortByImpact(SubSeq(patterns, 1, Len(patterns) - 1)))

\* detectDataDrivenPatterns
DetectDataDrivenPatterns(answers, businessMetrics, competitors) ==
  SortByImpact(ConfidentPatterns(
    EngineDetectorResults(answers, businessMetrics, competitors)))

\* calculateRealConfidence
CalculateRealConfidence(patterns, behavioralHistory) ==
  LET dataQuality == MathMin(Num(behavioralHistory.total_signals, 10), Whole(1))
      predictionAccuracy == OrElse(behavioralHistory.prediction_accuracy, Num(5, 10))
      patternClarity == IF patterns # <<>> THEN patterns[1].confidence ELSE Num(5, 10)
  IN Add(Add(Mul(dataQuality, Num(3, 10)), Mul(predictionAccuracy, Num(5, 10))),
         Mul(patternClarity, Num(2, 10)))

\* A should_intervene that is set whatever the patterns.
ShouldIntervene_Always(patterns) == TRUE

\* patterns.some(p => p.severity === 'critical' || p.cost > 1000)
ShouldIntervene(patterns) ==
  \E i \in 1..Len(patterns) :
    patterns[i].severity = "critical" \/ Gt(patterns[i].cost, Whole(1000))

\* ------------------------------------------------------------------------
\* POST /api/analyze of the engine (celeste7-real-engine.js)
\* ------------------------------------------------------------------------

\* requests > 30 is answered with 429.
RateLimit == 30

\* The datastore calls of analyzeUser, by the method that makes them. The
\* first five go through supabaseBreaker.fire, the others use the client.
BreakerCalls ==
  {"profile", "business", "competitive", "effectiveness", "breakthroughs"}

EngineCalls == BreakerCalls \cup {"detectors", "deliveries"}

\* How the calls of a request fail: an answer with an error, a breaker
\* timeout or an open breaker (fire rejects for the last two).
NoFailure == [calls |-> {}, kind |-> "ok"]

EngineFailures ==
  { NoFailure,
    [calls |-> EngineCalls, kind |-> "error"],
    [calls |-> EngineCalls, kind |-> "timeout"],
    [calls |-> EngineCalls, kind |-> "open"],
    [calls |-> {"deliveries"}, kind |-> "error"],
    [calls |-> {"inference"}, kind |-> "error"] }

\* The rows of a user, as the queries of analyzeUser and the detectors see
\* them.
NoRows ==
  [openTaskDelays |-> <<>>, messages |-> Null, plannedCount |-> 0,
   executedCount |-> 0, blockers |-> Null, context |-> Null,
   competitors |-> <<>>, revenues |-> <<>>,
   signals |-> [patterns |-> 0, predictions |-> 0, accurate |-> 0]]

Business(mrr, products) ==
  Some([monthly_recurring_revenue |-> mrr, product_count |-> products])

Competitor(mrr, products) ==
  [monthly_recurring_revenue |-> mrr, product_count |-> products]

EngineFixtures ==
  { NoRows,
    [NoRows EXCEPT !.openTaskDelays = <<84>>,
                   !.messages = Some([futureCount |-> 9, actionCount |-> 1]),
                   !.context = Business(3000, 1)],
    [NoRows EXCEPT !.signals = [patterns |-> 3, predictions |-> 4, accurate |-> 3]],
    [NoRows EXCEPT !.openTaskDelays = <<10>>],
    [NoRows EXCEPT !.openTaskDelays = <<0 - 1>>],
    [NoRows EXCEPT !.context = Business(1000, 10),
                   !.competitors = [i \in 1..5 |-> Competitor(5000, 10)]],
    [NoRows EXCEPT !.plannedCount = 9,
                   !.blockers = Some([count |-> 18, daysSince |-> 40])],
    [NoRows EXCEPT !.revenues = [i \in 1..9 |-> 10]],
    [NoRows EXCEPT !.context = Business(9000, 3),
                   !.competitors = [i \in 1..5 |-> Competitor(9000 - 1000 * i, 3)]] }

\* The rows the calls of a request return: a failed call returns no data.
Answered(answers, failure) ==
  [openTaskDelays |-> IF "detectors" \in failure.calls THEN <<>>
                      ELSE answers.openTaskDelays,
   messages |-> IF "detectors" \in failure.calls THEN Null ELSE answers.messages,
   plannedCount |-> IF "detectors" \in failure.calls THEN 0
                    ELSE answers.plannedCount,
   executedCount |-> IF "detectors" \in failure.calls THEN 0
                     ELSE answers.executedCount,
   blockers |-> IF "detectors" \in failure.calls THEN Null ELSE answers.blockers,
   context |-> IF "business" \in failure.calls THEN Null ELSE answers.context,
   competitors |-> IF "competitive" \in failure.calls THEN <<>>
                   ELSE GetCompetitiveReality(answers.context, answers.competitors),
   revenues |-> IF "business" \in failure.calls THEN <<>> ELSE answers.revenues,
   signals |-> IF "profile" \in failure.calls THEN NoRows.signals
               ELSE answers.signals]

\* The detection of analyzeUser per rows and failure (a function of the two),
\* tabulated: one row per combination.
EngineDetectionRows ==
  { LET rows == Answered(answers, failure)
        businessMetrics == GetBusinessTruth(rows.context, rows.revenues)
    IN [answers |-> answers, failure |-> failure,
        profile |-> BehavioralProfile(rows.signals),
        results |-> EngineDetectorResults(rows, businessMetrics, rows.competitors),
        patterns |-> DetectDataDrivenPatterns(rows, businessMetrics,
                                              rows.competitors)]
    : answers \in EngineFixtures, failure \in EngineFailures }

\* The breaker calls of a request that reject: those that time out or find the
\* breaker open; a cached profile makes no call.
Rejecting(failure, cachedProfile) ==
  IF failure.kind \in {"timeout", "open"}
    THEN (failure.calls \cap BreakerCalls)
           \ (IF cachedProfile # Null THEN {"profile"} ELSE {})
    ELSE {}

\* The route POST /api/analyze with analyzeUser; detection is the row of
\* EngineDetectionRows for the rows and the failure the request meets.
EngineAnalyze(userId, message, detection) ==
  IF Falsy(userId) \/ Falsy(message)
  THEN /\ resp' = [Response("engine", 400, userId, message) EXCEPT !.error = TRUE]
       /\ UNCHANGED <<stream, app, client, cb, circuitBreakers, detected, effectiveness, out, hf, run, resistanceVars, gen, pattern_cache,
                   engineVars>>
  ELSE IF patternCache[Val(userId)].requests > RateLimit
  THEN /\ resp' = [Response("engine", 429, userId, message) EXCEPT
                      !.error = TRUE, !.answers = Some(detection.answers),
                      !.failure = detection.failure]
       /\ UNCHANGED <<stream, app, client, cb, circuitBreakers, detected, effectiveness, out, hf, run, resistanceVars, gen, pattern_cache,
                   engineVars>>
  ELSE LET u == Val(userId)
           cached == patternCache[u].profile
           answers == detection.answers
           failure == detection.failure
           rejecting == Rejecting(failure, cached)
           behavioralHistory ==
             IF cached # Null THEN Val(cached)
             ELSE detection.profile
           patterns == detection.patterns
           \* mlEngine.getPredictions, with or without cached embeddings.
           mlThrew ==
             \E embedded \in BOOLEAN :
               GetPredictions(embedded, answers.messages # Null,
                              "inference" \notin failure.calls).threw
           \* generateUncomfortableIntervention hands the ML engine a data
           \* object without interventionHistory:
           \* data.interventionHistory[pattern.type] throws a TypeError.
           threw == rejecting # {} \/ mlThrew \/ patterns # <<>>
           inserted == ~threw /\ "deliveries" \notin failure.calls
           request == [Response("engine", 500, userId, message) EXCEPT
                         !.error = TRUE,
                         !.detectorsRun = rejecting = {},
                         !.results =
                           IF rejecting = {}
                             THEN detection.results
                             ELSE <<>>,
                         !.answers = Some(answers), !.failure = failure]
       IN /\ inserted => deliveries[u] < MaxDeliveries
          /\ patternCache' =
               [patternCache EXCEPT
                  ![u] = [requests |-> @.requests + 1,
                          profile |-> IF "profile" \in rejecting THEN Null
                                      ELSE Some(behavioralHistory)]]
          /\ deliveries' = IF inserted
                             THEN [deliveries EXCEPT ![u] = @ + 1]
                             ELSE deliveries
          /\ resp' =
               IF threw THEN request
               ELSE [request EXCEPT
                       !.status = 200, !.error = FALSE,
                       !.patterns = patterns,
                       !.intervention = Some([kind |-> "neutral", type |-> "neutral",
                                              level |-> "none", severity |-> "none"]),
                       !.confidence =
                          CalculateRealConfidence(patterns, behavioralHistory),
                       !.should_intervene = ShouldIntervene(patterns)]
          /\ UNCHANGED <<stream, app, client, cb, circuitBreakers, detected, effectiveness, out, hf, run, resistanceVars, gen,
                      pattern_cache>>

\* Entries of the engine's LRU expire: rate:<user> 60 s after the last
\* request, behavioral:<user> 10 minutes after it was set.
ExpireRate(u) ==
  /\ patternCache[u].requests > 0
  /\ patternCache' = [patternCache EXCEPT ![u].requests = 0]
  /\ UNCHANGED <<auxVars, resistanceVars, gen, pattern_cache, resp, deliveries>>

ExpireProfile(u) ==
  /\ patternCache[u].profile # Null
  /\ patternCache' = [patternCache EXCEPT ![u].profile = Null]
  /\ UNCHANGED <<auxVars, resistanceVars, gen, pattern_cache, resp, deliveries>>

\* ------------------------------------------------------------------------
\* The rate limit of POST /api/analyze inside the shared LRU
\* ------------------------------------------------------------------------

\* max of patternCache and the ttl of a rate entry, in ms.
CacheMax == 1000

RateTtl == 60000

\* now is the clock, setAt the instant rate:u1 was last set, newer the number
\* of entries used after rate:u1 was last used; admittedNow and admittedBefore
\* count the requests of u1 admitted at this instant and at the one before.
NoLru ==
  [now |-> 0, setAt |-> 0, newer |-> 0, admittedNow |-> 0, admittedBefore |-> 0]

\* A request of u1 to POST /api/analyze: patternCache.get makes rate:u1 the
\* most recently used entry, an admitted request sets it anew with its ttl and
\* then uses behavioral:u1.
RateAnalyze(detection) ==
  LET limited == patternCache["u1"].requests > RateLimit
  IN /\ ~limited => lru.admittedNow < MaxAdmitted
     /\ EngineAnalyze(Some("u1"), Some("I will launch tomorrow"), detection)
     /\ lru' =
          IF limited THEN [lru EXCEPT !.newer = 0]
          ELSE [lru EXCEPT
                  !.newer = IF patternCache'["u1"].profile # Null THEN 1 ELSE 0,
                  !.setAt = lru.now,
                  !.admittedNow = @ + 1]
     /\ UNCHANGED breaker

\* Requests of other users put n entries (rate:<user>, behavioral:<user>) into
\* patternCache: with CacheMax entries used after it, rate:u1 is the least
\* recently used entry and is evicted.
OthersFill(n) ==
  LET evicted == lru.newer + n >= CacheMax
  IN /\ patternCache["u1"].requests > 0
     /\ lru' = [lru EXCEPT !.newer = IF evicted THEN 0 ELSE @ + n]
     /\ patternCache' =
          IF evicted THEN [patternCache EXCEPT !["u1"].requests = 0]
          ELSE patternCache
     /\ UNCHANGED <<stream, app, client, cb, circuitBreakers, detected, effectiveness, out,
                    hf, run, breaker, resistanceVars, gen, pattern_cache, resp,
                    deliveries>>

\* The clock moves on by step ms: a rate entry older than its ttl is stale.
RateClock(step) ==
  LET now == lru.now + step
  IN /\ now <= MaxRateNow
     /\ lru' = [lru EXCEPT !.now = now, !.admittedBefore = lru.admittedNow,
                           !.admittedNow = 0]
     /\ patternCache' =
          IF now - lru.setAt > RateTtl
            THEN [patternCache EXCEPT !["u1"].requests = 0]
            ELSE patternCache
     /\ UNCHANGED <<stream, app, client, cb, circuitBreakers, detected, effectiveness, out,
                    hf, run, breaker, resistanceVars, gen, pattern_cache, resp,
                    deliveries>>

\* ------------------------------------------------------------------------
\* The execution-paralysis detectors over all task counts
\* ------------------------------------------------------------------------

NoDetected ==
  [called |-> FALSE, plannedCount |-> 0, executedCount |-> 0,
   blockers |-> Null, engine |-> Null, optimizer |-> Null]

\* ExecutionParalysisDetector.detect for a user with plannedCount planning
\* tasks, executedCount used execution tasks and the given blocker rows, and
\* detectExecutionParalysisBrutally for the same counts as get_execution_metrics
\* answers them. The detectors keep no state: one call is looked at.
ParalysisDetect(plannedCount, executedCount, blockers) ==
  /\ ~detected.called
  /\ detected' =
       [called |-> TRUE, plannedCount |-> plannedCount,
        executedCount |-> executedCount, blockers |-> blockers,
        engine |->
          ExecutionParalysisDetect(
            [NoRows EXCEPT !.plannedCount = plannedCount,
                           !.executedCount = executedCount,
                           !.blockers = blockers],
            GetBusinessTruth(Null, <<>>)),
        optimizer |->
          DetectExecutionParalysisBrutally(
            TRUE, Planned(plannedCount, executedCount, 0, 0))]
  /\ UNCHANGED <<stream, app, lru, client, cb, circuitBreakers, effectiveness, out, hf, run, breaker, resistanceVars, gen,
                 httpVars>>

\* ------------------------------------------------------------------------
\* withCircuitBreaker of api/analyze.js
\* ------------------------------------------------------------------------

Services == {"supabase", "huggingface"}

\* The cooldown of an open circuit, in ms.
Cooldown == 30000

\* The failures at which the circuit opens.
FailureThreshold == 3

NoCircuitBreakers ==
  [s \in Services |-> [failures |-> 0, lastFailure |-> Null, isOpen |-> FALSE]]

NoGuardedCalls ==
  [now |-> 0, pending |-> <<>>, calls |-> 0,
   streak |-> [s \in Services |-> 0],
   last |-> [service |-> "none", kind |-> "none", value |-> "none",
             hasFallback |-> FALSE, retry |-> FALSE]]

\* Date.now() - breaker.lastFailure (null counts as 0).
TimeSinceFailure(b, now) ==
  now - (IF b.lastFailure = Null THEN 0 ELSE Val(b.lastFailure))

CircuitHeldOpen_Forever(b, now) == b.isOpen

\* The open circuit within its cooldown: the call returns without the
\* operation.
CircuitHeldOpen(b, now) == b.isOpen /\ TimeSinceFailure(b, now) < Cooldown

\* withCircuitBreaker up to its await: within the cooldown of an open circuit
\* it returns the fallback's value or null; otherwise it closes the circuit
\* and invokes the operation.
WithCircuitBreaker(service, hasFallback) ==
  LET b == circuitBreakers[service]
      held == CircuitHeldOpen(b, cb.now)
      entry == [service |-> service, hasFallback |-> hasFallback]
  IN /\ cb.calls < MaxGuardedCalls
     /\ ~held => Len(cb.pending) < MaxInFlight
     /\ circuitBreakers' =
          IF held THEN circuitBreakers
          ELSE [circuitBreakers EXCEPT ![service].isOpen = FALSE]
     /\ cb' = [cb EXCEPT
                 !.calls = @ + 1,
                 !.pending = IF held THEN @ ELSE Append(@, entry),
                 !.last =
                    [service |-> service, hasFallback |-> hasFallback,
                     retry |-> b.isOpen /\ ~held,
                     kind |-> IF held THEN "skipped" ELSE "invoked",
                     value |-> IF ~held THEN "none"
                               ELSE IF hasFallback THEN "fallback" ELSE "null"]]
     /\ UNCHANGED <<stream, app, lru, client, effectiveness, out, hf, run, breaker, detected,
                    resistanceVars, gen, httpVars>>

\* The awaited operation of the i-th pending call resolves (ok) or rejects:
\* the rest of withCircuitBreaker.
OperationSettles(i, ok) ==
  LET entry == cb.pending[i]
      service == entry.service
      b == circuitBreakers[service]
      failures == b.failures + 1
  IN /\ ~ok => b.failures < MaxFailures
     /\ circuitBreakers' =
          IF ok THEN [circuitBreakers EXCEPT ![service].failures = 0]
          ELSE [circuitBreakers EXCEPT
                  ![service] = [failures |-> failures,
                                lastFailure |-> Some(cb.now),
                                isOpen |-> IF failures >= FailureThreshold
                                             THEN TRUE ELSE b.isOpen]]
     /\ cb' = [cb EXCEPT
                 !.pending = SubSeq(@, 1, i - 1) \o SubSeq(@, i + 1, Len(@)),
                 !.streak[service] = IF ok THEN 0 ELSE @ + 1,
                 !.last =
                    [service |-> service, hasFallback |-> entry.hasFallback,
                     retry |-> FALSE,
                     kind |-> IF ok THEN "succeeded" ELSE "failed",
                     value |-> IF ok THEN "result"
                               ELSE IF entry.hasFallback THEN "fallback"
                               ELSE "throw"]]
     /\ UNCHANGED <<stream, app, lru, client, effectiveness, out, hf, run, breaker, detected,
                    resistanceVars, gen, httpVars>>

\* Date.now() moves on by d ms.
ClockAdvances(d) ==
  /\ cb.now + d <= MaxNow
  /\ cb' = [cb EXCEPT !.now = @ + d]
  /\ UNCHANGED <<stream, app, lru, client, circuitBreakers, effectiveness, out, hf, run, breaker,
                 detected, resistanceVars, gen, httpVars>>

\* ------------------------------------------------------------------------
\* client-realtime.js: the SSE connection of Celeste7VercelRealTime
\* ------------------------------------------------------------------------

maxReconnectAttempts == 5

\* The client after its constructor: init() has called connectSSE, so the
\* first EventSource is connecting. sseConnection is the readyState of the
\* current EventSource ("none" for null), timers are the delays of the pending
\* reconnect timeouts, fired is the last event fired, posts are the batches of
\* the pattern POSTs in flight; detected and accepted tell the patterns given
\* to detectPattern and those of the POSTs the server accepted; disconnected
\* tells that disconnect() has been called, reopened that an EventSource was
\* created after that.
NewClient ==
  [sseConnection |-> "connecting", isConnected |-> FALSE,
   reconnectAttempts |-> 0, timers |-> <<>>, fired |-> "none",
   patternBuffer |-> <<>>, posts |-> <<>>, detected |-> 0, accepted |-> {},
   disconnected |-> FALSE, reopened |-> FALSE]

\* Math.min(1000 * Math.pow(2, reconnectAttempts), 30000)
ReconnectDelay(reconnectAttempts) == Min(1000 * 2 ^ reconnectAttempts, 30000)

\* onopen of the current EventSource.
SseOpen ==
  /\ client.sseConnection = "connecting"
  /\ client' = [client EXCEPT !.sseConnection = "open", !.isConnected = TRUE,
                              !.reconnectAttempts = 0, !.fired = "connected"]
  /\ UNCHANGED <<stream, app, lru, cb, circuitBreakers, serverVars>>

\* onerror of the current EventSource, which goes on retrying by itself
\* (retrying) or is closed by the failure: handleConnectionDrop.
SseError(retrying) ==
  LET schedule == client.reconnectAttempts < maxReconnectAttempts
  IN /\ client.sseConnection \in {"connecting", "open"}
     /\ schedule => Len(client.timers) < MaxTimers
     /\ client' =
          [client EXCEPT
             !.sseConnection = IF retrying THEN "connecting" ELSE "closed",
             !.isConnected = FALSE,
             !.timers = IF schedule
                          THEN Append(@, ReconnectDelay(client.reconnectAttempts))
                          ELSE @,
             !.fired = IF schedule THEN "none" ELSE "disconnected"]
     /\ UNCHANGED <<stream, app, lru, cb, circuitBreakers, serverVars>>

\* The i-th pending reconnect timeout fires: reconnectAttempts++ and
\* connectSSE, which closes the current EventSource and creates the next.
ReconnectTimer(i) ==
  /\ client' =
       [client EXCEPT
          !.timers = SubSeq(@, 1, i - 1) \o SubSeq(@, i + 1, Len(@)),
          !.reconnectAttempts = @ + 1,
          !.sseConnection = "connecting",
          !.fired = "none",
          !.reopened = @ \/ client.disconnected]
  /\ UNCHANGED <<stream, app, lru, cb, circuitBreakers, serverVars>>

\* detectPattern: the pattern (named by its number) is pushed to the buffer.
ClientDetectPattern ==
  /\ client.detected < MaxPatterns
  /\ client' = [client EXCEPT
                  !.detected = @ + 1,
                  !.patternBuffer = Append(@, client.detected + 1)]
  /\ UNCHANGED <<stream, app, lru, cb, circuitBreakers, serverVars>>

\* The interval of startPatternBatching with a non-empty buffer: sendPatterns
\* up to its await, the buffer is copied into the POST and emptied.
SendPatterns ==
  /\ client.patternBuffer # <<>>
  /\ Len(client.posts) < MaxPosts
  /\ client' = [client EXCEPT !.posts = Append(@, client.patternBuffer),
                              !.patternBuffer = <<>>]
  /\ UNCHANGED <<stream, app, lru, cb, circuitBreakers, serverVars>>

\* The i-th POST in flight ends: "accepted" (a 2xx response), "error_response"
\* (another status with a JSON body, as the 404 handler of index.js sends it;
\* response.ok is not read) or "thrown" (fetch rejects or the body is no
\* JSON), where the catch puts the batch back in front of the buffer.
PostSettles(i, outcome) ==
  LET patterns == client.posts[i]
  IN /\ client' =
          [client EXCEPT
             !.posts = SubSeq(@, 1, i - 1) \o SubSeq(@, i + 1, Len(@)),
             !.accepted =
                IF outcome = "accepted"
                  THEN @ \cup {patterns[k] : k \in 1..Len(patterns)}
                  ELSE @,
             !.patternBuffer = IF outcome = "thrown" THEN patterns \o @ ELSE @]
     /\ UNCHANGED <<stream, app, lru, cb, circuitBreakers, serverVars>>

\* disconnect(): the current EventSource is closed and dropped, and a
\* non-empty buffer is sent (sendPatterns up to its await). The pending
\* reconnect timeouts are left alone: no handle of them is kept.
Disconnect ==
  /\ client.patternBuffer # <<>> => Len(client.posts) < MaxPosts
  /\ client' =
       [client EXCEPT
          !.sseConnection = "none", !.isConnected = FALSE,
          !.posts = IF client.patternBuffer # <<>>
                      THEN Append(@, client.patternBuffer) ELSE @,
          !.patternBuffer = <<>>,
          !.disconnected = TRUE]
  /\ UNCHANGED <<stream, app, lru, cb, circuitBreakers, serverVars>>

\* ------------------------------------------------------------------------
\* frontend/src/App.js: the session of the application
\* ------------------------------------------------------------------------

\* The application on its first load in a browser without stored items:
\* celeste7_token, celeste7_user and the user of the React state name a user
\* or are "none", celeste7_session_created is "none", "fresh"
\* or "old" (more than 24 hours ago); via tells how checkSession, the login
\* or the logout ended, loggingOut that handleLogout awaits its request,
\* logoutRequest how the request of the last logout ended ("none" without
\* a request).
NewApp ==
  [token |-> "none", userData |-> "none", onboardingCompleted |-> FALSE,
   profile |-> FALSE, sessionCreated |-> "none", sessionId |-> FALSE,
   isAuthenticated |-> FALSE, user |-> "none", isLoading |-> TRUE,
   showOnboarding |-> FALSE, via |-> "none", loggingOut |-> FALSE,
   logoutRequest |-> "none"]

\* What the verify-token request can come to: response.ok with data.success,
\* response.ok without, another status, or a fetch that rejects (a body that
\* is no JSON throws likewise).
VerifyOutcomes == {"verified", "rejected", "status", "unreachable"}

\* checkSession, 1500 ms after the application has mounted.
CheckSession(outcome) ==
  LET autoLogin ==
        [app EXCEPT
           !.sessionId = TRUE,
           !.sessionCreated =
              IF ~app.sessionId \/ app.sessionCreated # "fresh"
                THEN "fresh" ELSE @,
           !.user = app.userData, !.isAuthenticated = TRUE,
           !.showOnboarding = ~app.onboardingCompleted]
      checked ==
        IF app.token = "none" \/ app.userData = "none"
          THEN [app EXCEPT !.via = "unchecked"]
        ELSE IF outcome = "verified"
          THEN [app EXCEPT !.user = app.userData, !.isAuthenticated = TRUE,
                           !.showOnboarding = ~app.onboardingCompleted,
                           !.via = outcome]
        ELSE IF outcome = "rejected"
          THEN [app EXCEPT !.token = "none", !.userData = "none",
                           !.onboardingCompleted = FALSE, !.via = outcome]
        \* the catch block: "auto-login with mock data if there's stored
        \* user data"
        ELSE [autoLogin EXCEPT !.via = outcome]
  IN /\ app.isLoading
     /\ app' = [checked EXCEPT !.isLoading = FALSE]
     /\ UNCHANGED <<stream, lru, client, cb, circuitBreakers, serverVars>>

\* handleLogin, called by the AuthScreen with the user who logged in.
HandleLogin(userData) ==
  /\ ~app.isLoading /\ ~app.isAuthenticated
  /\ app' = [app EXCEPT
               !.user = userData, !.isAuthenticated = TRUE,
               !.showOnboarding = TRUE,
               !.token = userData, !.userData = userData, !.sessionId = TRUE,
               !.sessionCreated = "fresh", !.via = "login",
               !.logoutRequest = "none"]
  /\ UNCHANGED <<stream, lru, client, cb, circuitBreakers, serverVars>>

\* handleOnboardingComplete, called by the OnboardingScreen.
HandleOnboardingComplete ==
  /\ ~app.isLoading /\ app.isAuthenticated /\ app.showOnboarding
  /\ app' = [app EXCEPT !.showOnboarding = FALSE,
                        !.onboardingCompleted = TRUE, !.profile = TRUE]
  /\ UNCHANGED <<stream, lru, client, cb, circuitBreakers, serverVars>>

\* A handleLogout that leaves celeste7_profile in localStorage.
ClearSession_KeepsProfile(a) ==
  [a EXCEPT !.token = "none", !.userData = "none",
            !.onboardingCompleted = FALSE,
            !.sessionCreated = "none", !.sessionId = FALSE,
            !.user = "none", !.isAuthenticated = FALSE,
            !.showOnboarding = FALSE, !.loggingOut = FALSE, !.via = "logout"]

\* handleLogout after its try block: every session item is removed and the
\* state is unauthenticated.
ClearSession(a) ==
  [a EXCEPT !.token = "none", !.userData = "none",
            !.onboardingCompleted = FALSE,
            !.profile = FALSE, !.sessionCreated = "none", !.sessionId = FALSE,
            !.user = "none", !.isAuthenticated = FALSE,
            !.showOnboarding = FALSE, !.loggingOut = FALSE, !.via = "logout"]

\* handleLogout, called by the ChatInterface, up to the await of its logout
\* request; without a stored token no request is made.
HandleLogout ==
  /\ ~app.isLoading /\ app.isAuthenticated /\ ~app.showOnboarding
  /\ ~app.loggingOut
  /\ app' = IF app.token # "none" THEN [app EXCEPT !.loggingOut = TRUE]
            ELSE [ClearSession(app) EXCEPT !.logoutRequest = "none"]
  /\ UNCHANGED <<stream, lru, client, cb, circuitBreakers, serverVars>>

\* The logout request is answered or rejects (the catch logs it): the rest of
\* handleLogout.
LogoutSettles(ok) ==
  /\ app.loggingOut
  /\ app' = [ClearSession(app) EXCEPT
               !.logoutRequest = IF ok THEN "answered" ELSE "failed"]
  /\ UNCHANGED <<stream, lru, client, cb, circuitBreakers, serverVars>>

\* The page is loaded again, in the same tab or in a new one (whose
\* sessionStorage is empty): the React state starts anew, localStorage stays,
\* a handleLogout awaiting its request is gone.
Reload(sameTab) ==
  /\ app' = [app EXCEPT
               !.sessionId = IF sameTab THEN @ ELSE FALSE,
               !.isAuthenticated = FALSE, !.user = "none", !.isLoading = TRUE,
               !.showOnboarding = FALSE, !.via = "none", !.loggingOut = FALSE,
               !.logoutRequest = "none"]
  /\ UNCHANGED <<stream, lru, client, cb, circuitBreakers, serverVars>>

\* More than 24 hours pass since celeste7_session_created.
SessionAges ==
  /\ app.sessionCreated = "fresh"
  /\ app' = [app EXCEPT !.sessionCreated = "old"]
  /\ UNCHANGED <<stream, lru, client, cb, circuitBreakers, serverVars>>

\* ------------------------------------------------------------------------
\* supabaseBreaker: one circuit breaker for the requests of every user
\* ------------------------------------------------------------------------

\* The requests counted in one rolling window of the breaker.
MaxWindow == 3

\* The breaker after construction: closed, nothing counted.
NoBreaker == [state |-> "closed", fires |-> 0, failures |-> 0]

\* An engine analyze request through the breaker. The calls of a request are
\* answered or time out together (detection.failure), so the window counts
\* requests. An open breaker rejects every call; a timeout counts as a
\* failure and opens the breaker when the failures exceed
\* errorThresholdPercentage (50) of the calls, or when it was half open; an
\* answered call closes a half-open breaker.
BreakerAnalyze(userId, detection) ==
  LET fires == breaker.fires + 1
      failures == breaker.failures + 1
  IN /\ detection.answers = NoRows
     /\ patternCache[Val(userId)].requests < MaxWindow
     /\ IF breaker.state = "open"
          THEN /\ detection.failure = [calls |-> EngineCalls, kind |-> "open"]
               /\ UNCHANGED breaker
        ELSE IF detection.failure = NoFailure
          THEN /\ breaker.fires < MaxWindow
               /\ breaker' = [breaker EXCEPT !.state = "closed", !.fires = fires]
        ELSE /\ detection.failure = [calls |-> EngineCalls, kind |-> "timeout"]
             /\ breaker.fires < MaxWindow
             /\ breaker' =
                  [state |-> IF failures * 100 > 50 * fires
                                  \/ breaker.state = "halfOpen"
                               THEN "open" ELSE "closed",
                   fires |-> fires, failures |-> failures]
     /\ EngineAnalyze(userId, Some("I will launch tomorrow"), detection)
     /\ UNCHANGED lru

\* resetTimeout (30 s) after the breaker opened: the next call is let through.
BreakerHalfOpen ==
  /\ breaker.state = "open"
  /\ breaker' = [breaker EXCEPT !.state = "halfOpen"]
  /\ UNCHANGED <<stream, app, lru, client, cb, circuitBreakers, detected, effectiveness, out, hf, run, resistanceVars, gen, httpVars>>

\* The rolling window moves past the calls it counted.
WindowRolls ==
  /\ breaker.fires > 0
  /\ breaker' = [breaker EXCEPT !.fires = 0, !.failures = 0]
  /\ UNCHANGED <<stream, app, lru, client, cb, circuitBreakers, detected, effectiveness, out, hf, run, resistanceVars, gen, httpVars>>

\* ------------------------------------------------------------------------
\* analyzeUser step by step: the fan-out, the join and the detectors' reads
\* ------------------------------------------------------------------------

\* The tables each detector's detect reads, in the order it awaits them.
DetectorReads ==
  [procrastination |-> <<"task_history", "user_feedback", "user_patterns">>,
   pricing_cowardice |-> <<>>,
   execution_paralysis |-> <<"task_history", "pattern_occurrences">>,
   competitive_delusion |-> <<>>,
   revenue_stagnation |-> <<>>]

\* No call: pending are the reads of the fan-out in flight, stage[d] the
\* number of its reads detector d has got answered. In "detect" a detector
\* with all its reads answered has run its heuristic, any other has its next
\* read in flight.
NoRun ==
  [pc |-> "idle", cached |-> FALSE, pending |-> {},
   stage |-> [d \in DOMAIN DetectorReads |-> 0]]

\* analyzeUser up to its Promise.all: the six methods start their reads
\* (getUserBehavioralProfile four, or none with a cached profile).
AnalyzeStart(cached) ==
  /\ run.pc = "idle"
  /\ run' = [NoRun EXCEPT
               !.pc = "fanout", !.cached = cached,
               !.pending =
                 (IF cached THEN {}
                  ELSE {"user_patterns", "behavioral_predictions",
                        "pattern_evolution", "user_state_evolution"})
                 \cup {"business", "competitive", "effectiveness",
                       "breakthroughs", "predictions"}]
  /\ UNCHANGED <<stream, app, lru, client, cb, circuitBreakers, detected, breaker, effectiveness, out, hf, resistanceVars, gen, httpVars>>

\* A read of the fan-out is answered.
FanOutRead(read) ==
  /\ run.pc = "fanout"
  /\ read \in run.pending
  /\ run' = [run EXCEPT !.pending = @ \ {read}]
  /\ UNCHANGED <<stream, app, lru, client, cb, circuitBreakers, detected, breaker, effectiveness, out, hf, resistanceVars, gen, httpVars>>

\* The Promise.all of analyzeUser resolves and detectDataDrivenPatterns maps
\* over the detectors: each detect runs to its first await, that is to its
\* first read or, without reads, through its heuristic.
DetectStart ==
  /\ run.pc = "fanout"
  /\ run.pending = {}
  /\ run' = [run EXCEPT !.pc = "detect"]
  /\ UNCHANGED <<stream, app, lru, client, cb, circuitBreakers, detected, breaker, effectiveness, out, hf, resistanceVars, gen, httpVars>>

\* The read in flight of detector d is answered: detect goes on to its next
\* read or, after the last, to its heuristic.
DetectorRead(d) ==
  /\ run.pc = "detect"
  /\ run.stage[d] < Len(DetectorReads[d])
  /\ run' = [run EXCEPT !.stage[d] = @ + 1]
  /\ UNCHANGED <<stream, app, lru, client, cb, circuitBreakers, detected, breaker, effectiveness, out, hf, resistanceVars, gen, httpVars>>

\* Every detect has resolved: analyzeUser goes on to its result.
AnalyzeReturn ==
  /\ run.pc = "detect"
  /\ \A d \in DOMAIN DetectorReads : run.stage[d] = Len(DetectorReads[d])
  /\ run' = NoRun
  /\ UNCHANGED <<stream, app, lru, client, cb, circuitBreakers, detected, breaker, effectiveness, out, hf, resistanceVars, gen, httpVars>>

\* ------------------------------------------------------------------------
\* track-outcome (the engine's route and handleTrackOutcome of api/analyze.js)
\* ------------------------------------------------------------------------

\* The tracking_id field of a request body.
TrackingIdArgs == {Null, Some(""), Some("t1"), Some("t2")}

\* The outcome field of a request body: absent, or an object with the four
\* fields the score reads (a flag that is absent reads as false, an absent
\* revenue_impact is undefined).
OutcomeArgs ==
  {Null} \cup
  { Some([action_taken |-> a, revenue_impact |-> r, pattern_broken |-> p,
          breakthrough |-> b]) :
      a \in BOOLEAN, r \in {Undefined, Whole(0), Whole(500), Whole(0 - 5)},
      p \in BOOLEAN, b \in BOOLEAN }

\* calculateEffectiveness
CalculateEffectiveness(outcome) ==
  LET afterAction == IF outcome.action_taken THEN Num(3, 10) ELSE Whole(0)
      afterRevenue == IF Gt(ToNumber(outcome.revenue_impact), Whole(0))
                        THEN Add(afterAction, Num(3, 10)) ELSE afterAction
      afterPattern == IF outcome.pattern_broken
                        THEN Add(afterRevenue, Num(2, 10)) ELSE afterRevenue
      score == IF outcome.breakthrough
                 THEN Add(afterPattern, Num(2, 10)) ELSE afterPattern
  IN MathMin(score, Whole(1))

NoOut ==
  [seq |-> 0, endpoint |-> "none", status |-> 0, error |-> FALSE,
   tracking_id |-> Null, outcome |-> Null,
   effectiveness_recorded |-> Undefined, database |-> FALSE, probeOk |-> FALSE]

\* The response to a track-outcome or health request: the fields a handler
\* does not send keep the values of NoOut.
OutResponse(endpoint, status) ==
  [NoOut EXCEPT !.seq = 1 - out.seq, !.endpoint = endpoint, !.status = status]

\* .update({effectiveness_score, ...}).eq('intervention_id', tracking_id)
UpdateEffectiveness(rows, tracking_id, score) ==
  [i \in 1..Len(rows) |->
     IF rows[i].column = "intervention_id" /\ rows[i].id = tracking_id
       THEN [rows[i] EXCEPT !.effectiveness_score = score]
       ELSE rows[i]]

\* The engine's POST /api/track-outcome; updateOk tells whether the update is
\* answered without an error.
EngineTrackOutcome(tracking_id, outcome, updateOk) ==
  /\ out' =
       IF Falsy(tracking_id) \/ outcome = Null
         THEN [OutResponse("engine", 400) EXCEPT
                 !.error = TRUE, !.tracking_id = tracking_id, !.outcome = outcome]
       ELSE IF ~updateOk
         THEN [OutResponse("engine", 500) EXCEPT
                 !.error = TRUE, !.tracking_id = tracking_id, !.outcome = outcome]
       ELSE [OutResponse("engine", 200) EXCEPT
               !.tracking_id = tracking_id, !.outcome = outcome,
               !.effectiveness_recorded = CalculateEffectiveness(Val(outcome))]
  /\ effectiveness' =
       IF Falsy(tracking_id) \/ outcome = Null \/ ~updateOk THEN effectiveness
       ELSE UpdateEffectiveness(effectiveness, Val(tracking_id),
                                CalculateEffectiveness(Val(outcome)))
  /\ UNCHANGED <<stream, app, lru, client, cb, circuitBreakers, detected, breaker, hf, run, resistanceVars, gen, httpVars>>

\* handleTrackOutcome of api/analyze.js, its insert wrapped in
\* withCircuitBreaker('supabase', ...) without a fallback; insert tells whether
\* the insert is answered without an error ("ok"), with one ("error": the
\* result is not looked at) or throws ("throws"). Within the cooldown of the
\* open circuit the insert is not made and withCircuitBreaker returns null.
HandleTrackOutcome(tracking_id, outcome, insert) ==
  LET missing == Falsy(tracking_id) \/ outcome = Null
      b == circuitBreakers["supabase"]
      held == CircuitHeldOpen(b, cb.now)
      threw == ~missing /\ ~held /\ insert = "throws"
      inserted == ~missing /\ ~held /\ insert = "ok"
      failures == b.failures + 1
      request == [OutResponse("api", 200) EXCEPT
                    !.tracking_id = tracking_id, !.outcome = outcome]
  IN /\ inserted => Len(effectiveness) < MaxOutcomeRows
     /\ threw => b.failures < MaxFailures
     /\ out' =
          IF missing THEN [request EXCEPT !.status = 400, !.error = TRUE]
          ELSE IF threw THEN [request EXCEPT !.status = 500, !.error = TRUE]
          ELSE request
     /\ effectiveness' =
          IF inserted
            THEN Append(effectiveness,
                        [column |-> "tracking_id", id |-> Val(tracking_id),
                         effectiveness_score |-> Undefined])
            ELSE effectiveness
     /\ circuitBreakers' =
          IF missing \/ held THEN circuitBreakers
          ELSE IF threw
            THEN [circuitBreakers EXCEPT
                    !["supabase"] =
                       [failures |-> failures, lastFailure |-> Some(cb.now),
                        isOpen |-> failures >= FailureThreshold]]
          ELSE [circuitBreakers EXCEPT
                  !["supabase"].isOpen = FALSE, !["supabase"].failures = 0]
     /\ UNCHANGED <<stream, app, lru, client, cb, detected, breaker, hf, run,
                    resistanceVars, gen, httpVars>>

\* ------------------------------------------------------------------------
\* health (the engine's route and the route of index.js)
\* ------------------------------------------------------------------------

\* checkDatabaseHealth: !error of the probe select, false when it throws.
CheckDatabaseHealth(probeOk) == probeOk

\* The engine's GET /health: res.json(...) without a status, so 200; probeOk
\* tells whether the datastore answers the probe without an error.
EngineHealth(probeOk) ==
  /\ out' = [OutResponse("engine-health", 200) EXCEPT
               !.database = CheckDatabaseHealth(probeOk), !.probeOk = probeOk]
  /\ UNCHANGED <<stream, app, lru, client, cb, circuitBreakers, detected, breaker, effectiveness, hf, run, resistanceVars, gen, httpVars>>

\* getSystemHealth of index.js: memory, cache and components, no datastore
\* probe (the components are set by the constructor).
GetSystemHealth(memoryHealthy, cacheHealthy) == memoryHealthy /\ cacheHealthy

\* GET /health of index.js; probeOk tells whether the datastore would answer
\* a probe.
ServerHealth(probeOk, memoryHealthy, cacheHealthy) ==
  /\ out' = [OutResponse("server-health",
                         IF GetSystemHealth(memoryHealthy, cacheHealthy)
                           THEN 200 ELSE 503) EXCEPT
               !.probeOk = probeOk]
  /\ UNCHANGED <<stream, app, lru, client, cb, circuitBreakers, detected, breaker, effectiveness, hf, run, resistanceVars, gen, httpVars>>

\* ------------------------------------------------------------------------
\* Specifications
\* ------------------------------------------------------------------------

\* The state after construction: no rows, no cache entries, no call and no
\* request made.
InitIdle ==
  /\ InitResistance
  /\ gen = NoGen
  /\ pattern_cache = [u \in Users |-> NoRow]
  /\ resp = NoResponse
  /\ patternCache = [u \in Users |-> [profile |-> Null, requests |-> 0]]
  /\ deliveries = [u \in Users |-> 0]
  /\ effectiveness = <<>>
  /\ out = NoOut
  /\ hf = NoDetect
  /\ run = NoRun
  /\ breaker = NoBreaker
  /\ detected = NoDetected
  /\ circuitBreakers = NoCircuitBreakers
  /\ cb = NoGuardedCalls
  /\ client = NewClient
  /\ lru = NoLru
  /\ app = NewApp
  /\ stream = OpenStream

\* Concurrent trackResistance calls.
SpecResistance == InitIdle /\ [][NextResistance]_vars

\* Calls of generateIntervention.
SpecGen == InitIdle /\ [][NextGen]_vars

\* The analyze handler of api/analyze.js and the realtime pattern check, with
\* trackResistance calls and cache expiry in between, for one user.
NextApi ==
  \/ \E userId \in UserIdArgs, message \in MessageArgs :
       /\ Falsy(userId) \/ Falsy(message)
       /\ HandleAnalyze(userId, message, NoAnswers, {})
  \/ \E answers \in Fixtures, failed \in FailureSets :
       HandleAnalyze(Some("u1"), Some("I will launch tomorrow"), answers, failed)
  \/ \E answers \in Fixtures, failed \in FailureSets :
       /\ PatternCheck("u1", answers, failed)
       /\ UNCHANGED stream
  \/ ExpireCache("u1")
  \/ \E s \in ReplyScores, readOk \in BOOLEAN, upsertOk \in BOOLEAN :
       TrackResistance("u1", s, readOk, upsertOk)

SpecApi == InitIdle /\ [][NextApi]_vars

\* handleAnalyze and the realtime pattern check of one user, run locally or
\* on Vercel with the pooler's call rejecting, the cached row expiring.
NextCache ==
  \/ \E answers \in Fixtures,
        failed \in { {}, {"detectPatternsQueued"},
                     {"detectPatternsQueued", "pattern_cache.select"} } :
       HandleAnalyze(Some("u1"), Some("I will launch tomorrow"), answers, failed)
  \/ \E answers \in Fixtures, failed \in { {}, {"detectPatternsQueued"} } :
       /\ PatternCheck("u1", answers, failed)
       /\ UNCHANGED stream
  \/ ExpireCache("u1")

SpecCache == InitIdle /\ [][NextCache]_vars

\* Every operation of one user next to trackResistance: analyze requests on
\* both endpoints, realtime checks, generateIntervention and track-outcome.
NextFrame ==
  \/ \E answers \in {NoAnswers, [NoAnswers EXCEPT !.procrastination = Delayed(84)]} :
       HandleAnalyze(Some("u1"), Some("I will launch tomorrow"), answers, {})
  \/ \E answers \in {NoAnswers, [NoAnswers EXCEPT !.procrastination = Delayed(84)]} :
       /\ PatternCheck("u1", answers, {})
       /\ UNCHANGED stream
  \/ \E detection \in EngineDetectionRows :
       /\ detection.answers = NoRows /\ detection.failure = NoFailure
       /\ patternCache["u1"].requests < MaxCalls
       /\ EngineAnalyze(Some("u1"), Some("I will launch tomorrow"), detection)
       /\ UNCHANGED <<stream, app, breaker, lru>>
  \/ \E l \in {Some(0), Some(3)} :
       Generate(Some([type |-> "procrastination"]), Some("evidence"),
                Some([userId |-> "u1", businessMetrics |-> FALSE]), l)
  \/ \E updateOk \in BOOLEAN :
       EngineTrackOutcome(Some("t1"),
                          Some([action_taken |-> TRUE, revenue_impact |-> Whole(500),
                                pattern_broken |-> FALSE, breakthrough |-> FALSE]),
                          updateOk)
  \/ \E insert \in {"ok", "error"} :
       HandleTrackOutcome(Some("t1"),
                          Some([action_taken |-> TRUE, revenue_impact |-> Whole(500),
                                pattern_broken |-> FALSE, breakthrough |-> FALSE]),
                          insert)
  \/ \E score \in ReplyScores, readOk \in BOOLEAN, upsertOk \in BOOLEAN :
       TrackResistance("u1", score, readOk, upsertOk)

SpecFrame == InitIdle /\ [][NextFrame]_vars

\* Calls of the execution-paralysis detectors for every pair of task counts,
\* without blocker rows and with one or three.
NextParalysis ==
  \E plannedCount \in 0..MaxPlannedTasks, executedCount \in 0..MaxExecutedTasks,
     blockers \in {Null, Some([count |-> 1, daysSince |-> 2]),
                   Some([count |-> 3, daysSince |-> 40])} :
    ParalysisDetect(plannedCount, executedCount, blockers)

SpecParalysis == InitIdle /\ [][NextParalysis]_vars

\* Overlapping withCircuitBreaker calls for both services while time passes.
NextCircuit ==
  \/ \E service \in Services, hasFallback \in BOOLEAN :
       WithCircuitBreaker(service, hasFallback)
  \/ \E i \in 1..Len(cb.pending), ok \in BOOLEAN : OperationSettles(i, ok)
  \/ \E d \in {15000, 30000} : ClockAdvances(d)

SpecCircuit == InitIdle /\ [][NextCircuit]_vars

\* The client's SSE connection: opens, error events and reconnect timeouts in
\* any order.
NextReconnect ==
  \/ SseOpen
  \/ \E retrying \in BOOLEAN : SseError(retrying)
  \/ \E i \in 1..Len(client.timers) : ReconnectTimer(i)

SpecReconnect == InitIdle /\ [][NextReconnect]_vars

\* The client's SSE connection with a pattern detected and disconnect()
\* called at any moment.
NextDisconnect ==
  \/ SseOpen
  \/ \E retrying \in BOOLEAN : SseError(retrying)
  \/ \E i \in 1..Len(client.timers) : ReconnectTimer(i)
  \/ ClientDetectPattern
  \/ Disconnect

SpecDisconnect == InitIdle /\ [][NextDisconnect]_vars

\* One realtime response of u1: pattern checks start, overlap and end, the
\* heartbeat fires and the client closes the connection, the cached row
\* expiring.
NextStream ==
  \/ StreamCheckStarts
  \/ \E answers \in Fixtures, failed \in { {}, {"detectPatternsQueued"} } :
       StreamCheckEnds(answers, failed)
  \/ StreamHeartbeat
  \/ StreamClose
  \/ ExpireCache("u1")

SpecStream == InitIdle /\ [][NextStream]_vars

\* The application over loads, logins, onboarding and logouts.
NextApp ==
  \/ \E outcome \in VerifyOutcomes : CheckSession(outcome)
  \/ \E userData \in Users : HandleLogin(userData)
  \/ HandleOnboardingComplete
  \/ HandleLogout
  \/ \E ok \in BOOLEAN : LogoutSettles(ok)
  \/ \E sameTab \in BOOLEAN : Reload(sameTab)
  \/ SessionAges

SpecApp == InitIdle /\ [][NextApp]_vars

\* Analyze requests of u1, who has no rows and whose delivery row is written
\* or not, every 30 s or faster, while other users fill the shared cache.
NextRate ==
  \/ \E detection \in EngineDetectionRows :
       /\ detection.answers = NoRows
       /\ detection.failure \in {NoFailure,
                                 [calls |-> {"deliveries"}, kind |-> "error"]}
       /\ RateAnalyze(detection)
  \/ \E n \in {999, 1000} : OthersFill(n)
  \/ RateClock(30000)

SpecRate == InitIdle /\ [][NextRate]_vars

\* The client's pattern buffer: detections, batches sent and POSTs ending in
\* any order.
NextBatching ==
  \/ ClientDetectPattern
  \/ SendPatterns
  \/ \E i \in 1..Len(client.posts),
          outcome \in {"accepted", "error_response", "thrown"} :
       PostSettles(i, outcome)

SpecBatching == InitIdle /\ [][NextBatching]_vars

\* The engine's analyze route for one user, with expiring cache entries.
NextEngine ==
  \/ \E userId \in UserIdArgs, message \in MessageArgs,
          detection \in EngineDetectionRows :
       /\ Falsy(userId) \/ Falsy(message)
       /\ detection.answers = NoRows /\ detection.failure = NoFailure
       /\ EngineAnalyze(userId, message, detection)
       /\ UNCHANGED <<stream, app, breaker, lru>>
  \/ \E detection \in EngineDetectionRows :
       /\ EngineAnalyze(Some("u1"), Some("I will launch tomorrow"), detection)
       /\ UNCHANGED <<stream, app, breaker, lru>>
  \/ ExpireRate("u1")
  \/ ExpireProfile("u1")

SpecEngine == InitIdle /\ [][NextEngine]_vars

\* The clients of the inference endpoint: detectPattern of HuggingFaceFallback,
\* and the engine's analyze requests of one user whose datastore calls all
\* succeed, the endpoint failing or not. The user has no rows, or overdue
\* tasks, messages and a business.
NextInference ==
  \/ \E message \in { {}, {"tomorrow", "later", "perfect"}, {"cheap", "free"} },
        patternType \in {"procrastination", "pricing_cowardice",
                         "revenue_stagnation"},
        probeOk \in BOOLEAN, detectOk \in BOOLEAN :
       DetectPattern(message, patternType, probeOk, detectOk)
  \/ HealthCheckDue
  \/ \E detection \in EngineDetectionRows :
       /\ detection.failure.calls \subseteq {"inference"}
       /\ detection.answers.competitors = <<>>
       /\ detection.answers.revenues = <<>>
       /\ detection.answers.blockers = Null
       /\ detection.answers.signals = NoRows.signals
       /\ \A i \in 1..Len(detection.answers.openTaskDelays) :
             detection.answers.openTaskDelays[i] > 10
       /\ EngineAnalyze(Some("u1"), Some("I will launch tomorrow"), detection)
       /\ UNCHANGED <<stream, app, breaker, lru>>
  \/ ExpireRate("u1")
  \/ ExpireProfile("u1")

SpecInference == InitIdle /\ [][NextInference]_vars

\* One analyzeUser call after another, read by read.
NextFanOut ==
  \/ \E cached \in BOOLEAN : AnalyzeStart(cached)
  \/ \E read \in run.pending : FanOutRead(read)
  \/ DetectStart
  \/ \E d \in DOMAIN DetectorReads : DetectorRead(d)
  \/ AnalyzeReturn

SpecFanOut == InitIdle /\ [][NextFanOut]_vars

\* Engine analyze requests of two users without rows: the datastore answers
\* every call made for u1 in time, calls made for u2 may time out.
NextBreaker ==
  \/ \E detection \in EngineDetectionRows :
       /\ detection.failure.kind # "timeout"
       /\ BreakerAnalyze(Some("u1"), detection)
  \/ \E detection \in EngineDetectionRows :
       BreakerAnalyze(Some("u2"), detection)
  \/ BreakerHalfOpen
  \/ WindowRolls
  \/ \E u \in Users : ExpireRate(u)
  \/ \E u \in Users : ExpireProfile(u)

SpecBreaker == InitIdle /\ [][NextBreaker]_vars

\* The rows and failures the requests of the two analyze endpoints meet when
\* both serve the same user.
AnalyzeFixtures ==
  { NoAnswers, [NoAnswers EXCEPT !.procrastination = Delayed(84)] }

AnalyzeFailureSets == { {}, DatastoreCalls }

AnalyzeDetectionRows ==
  { row \in EngineDetectionRows :
      \/ row.failure = NoFailure
           /\ row.answers \in {NoRows, [NoRows EXCEPT !.openTaskDelays = <<10>>]}
      \/ row.failure.kind = "error" /\ row.failure.calls = EngineCalls
           /\ row.answers = NoRows }

\* Both analyze endpoints, handleAnalyze of api/analyze.js and the engine's
\* route, serving requests for one user, well-formed or not.
NextAnalyze ==
  \/ \E userId \in {Null, Some(""), Some("u1")}, message \in MessageArgs,
          answers \in AnalyzeFixtures, failed \in AnalyzeFailureSets :
       HandleAnalyze(userId, message, answers, failed)
  \/ \E userId \in {Null, Some(""), Some("u1")}, message \in MessageArgs,
          detection \in AnalyzeDetectionRows :
       /\ EngineAnalyze(userId, message, detection)
       /\ UNCHANGED <<stream, app, breaker, lru>>
  \/ ExpireCache("u1")
  \/ ExpireRate("u1")
  \/ ExpireProfile("u1")

SpecAnalyze == InitIdle /\ [][NextAnalyze]_vars

\* The track-outcome and health requests of both servers.
NextOutcome ==
  \/ \E tracking_id \in TrackingIdArgs, outcome \in OutcomeArgs,
          updateOk \in BOOLEAN :
       EngineTrackOutcome(tracking_id, outcome, updateOk)
  \/ \E tracking_id \in TrackingIdArgs, outcome \in OutcomeArgs,
          insert \in {"ok", "error"} :
       HandleTrackOutcome(tracking_id, outcome, insert)
  \/ \E probeOk \in BOOLEAN : EngineHealth(probeOk)
  \/ \E probeOk \in BOOLEAN, memoryHealthy \in BOOLEAN, cacheHealthy \in BOOLEAN :
       ServerHealth(probeOk, memoryHealthy, cacheHealthy)

SpecOutcome == InitIdle /\ [][NextOutcome]_vars

\* track-outcome requests for the tracking ids t1 and t2 at both servers, the
\* datastore answering, failing or throwing, while time passes.
NextTracked ==
  \/ \E tracking_id \in {Some("t1"), Some("t2")}, updateOk \in BOOLEAN :
       EngineTrackOutcome(tracking_id,
                          Some([action_taken |-> TRUE, revenue_impact |-> Whole(500),
                                pattern_broken |-> FALSE, breakthrough |-> FALSE]),
                          updateOk)
  \/ \E tracking_id \in {Some("t1"), Some("t2")},
          insert \in {"ok", "error", "throws"} :
       HandleTrackOutcome(tracking_id,
                          Some([action_taken |-> TRUE, revenue_impact |-> Whole(500),
                                pattern_broken |-> FALSE, breakthrough |-> FALSE]),
                          insert)
  \/ \E d \in {15000, 30000} : ClockAdvances(d)

SpecTracked == InitIdle /\ [][NextTracked]_vars

\* ------------------------------------------------------------------------
\* Claims
\* ------------------------------------------------------------------------

\* C1: after any sequence of trackResistance calls, interleaved in any way,
\* the level persisted for each user is an integer from 0 to 5.
C1_LevelInRange ==
  \A u \in Users : resistance[u] = NoRow \/ Val(resistance[u]) \in 0..5

\* C1 witness: a call found level 5, counted more than two markers and has
\* stored: the level is still 5.
C1_Witness ==
  \E c \in Calls : /\ tr[c].pc = "stored"
                   /\ tr[c].newLevel = 6
                   /\ resistance[tr[c].user] = Some(5)

\* C2: the persisted level of a user never goes down: no step of any call
\* stores a level lower than the one stored before it.
C2_Monotonic ==
  [][\A u \in Users : LevelOf(resistance'[u]) >= LevelOf(resistance[u])]_vars

C5_ClampedLookup ==
  (gen.called /\ gen.pattern # Null /\ gen.evidence # Null /\ gen.userData # Null) =>
    LET type == TypeOf(Val(gen.pattern))
        L == IF gen.resistanceLevel = Null THEN 0 ELSE Val(gen.resistanceLevel)
        tier == IF L < 0 THEN 0 ELSE IF L > 5 THEN 5 ELSE L
    IN IF type # Null /\ Val(type) \in PatternTypes
         THEN /\ gen.out.kind \in {"template", "TypeError"}
              /\ gen.out.type = Val(type)
              /\ gen.out.level = resistanceLevels[tier + 1]
         ELSE gen.out.kind = "default"

\* C4: the intervention produced for a detected pattern, by the analyze
\* endpoint and by the realtime pattern check, is the template of the pattern's
\* type at the tier of the level persisted for the user when the call starts.
C4_TierOfPersistedLevel ==
  [][(/\ resp'.seq # resp.seq
      /\ resp'.endpoint \in {"api", "realtime"}
      /\ resp'.templated # Null) =>
       LET u == Val(resp'.userId)
           produced == IF resp'.endpoint = "api" THEN resp'.intervention
                       ELSE resp'.generated
       IN /\ produced # Null
          /\ Val(produced).kind = "template"
          /\ Val(produced).type = Val(resp'.templated).pattern_type
          /\ Val(produced).level = resistanceLevels[LevelOf(resistance[u]) + 1]
    ]_vars

\* C6: in every analyze response the patterns are in descending order of
\* estimated cost, and when at least one pattern is detected the templated
\* pattern is the first of them, the one with the highest estimated cost.
C6_HighestCostTemplated ==
  (resp.endpoint = "api" /\ resp.status = 200) =>
    /\ \A i \in 1..(Len(resp.patterns) - 1) :
         ~Lt(resp.patterns[i].estimated_cost, resp.patterns[i + 1].estimated_cost)
    /\ resp.patterns # <<>> => resp.templated = Some(resp.patterns[1])

\* C7: every confidence a detector computed for a request, and the overall
\* confidence of the response, is a number from 0 to 1.
C7_ConfidenceInUnitInterval ==
  LET InUnit(c) == /\ c # Undefined
                   /\ c[2] > 0
                   /\ 0 <= c[1] /\ c[1] <= c[2]
  IN resp.endpoint = "api" =>
       /\ \A i \in 1..Len(resp.results) :
            resp.results[i] # Null => InUnit(Val(resp.results[i]).confidence)
       /\ InUnit(resp.confidence)

C9_FailureYields200 ==
  (/\ resp.endpoint \in {"api", "engine"}
   /\ ~Falsy(resp.userId) /\ ~Falsy(resp.message)
   /\ resp.status # 429
   /\ resp.failed # {} \/ resp.failure.calls # {}) =>
     resp.status = 200 /\ resp.patterns = <<>>

C11_InterventionMeansIntervene ==
  (/\ resp.endpoint \in {"api", "engine"}
   /\ resp.status = 200
   /\ resp.intervention # Null) => resp.should_intervene

\* C12: an intervention carried by an analyze response, or by an
\* 'intervention' event of the realtime connection, has a defined tracking_id.
C12_InterventionHasTrackingId ==
  /\ (/\ resp.endpoint \in {"api", "engine"}
      /\ resp.status = 200
      /\ resp.intervention # Null) => HasTrackingId(Val(resp.intervention))
  /\ (resp.endpoint = "realtime" /\ resp.event = "intervention") =>
        /\ resp.generated # Null
        /\ HasTrackingId(Val(resp.generated))

\* C13: an analysis call that produces an intervention adds exactly one
\* delivery record, for its user and under the tracking_id the response
\* carries, and no analysis call removes or replaces a record made before.
C13_OneDeliveryPerIntervention ==
  [][(resp'.seq # resp.seq /\ resp'.endpoint \in {"api", "engine"}) =>
       /\ \A u \in Users : deliveries'[u] >= deliveries[u]
       /\ (resp'.status = 200 /\ resp'.intervention # Null) =>
            /\ HasTrackingId(Val(resp'.intervention))
            /\ deliveries' =
                 [deliveries EXCEPT ![Val(resp'.userId)] = @ + 1]
    ]_vars

\* C14: after any sequence of track-outcome calls, intervention_effectiveness
\* holds at most one row for each tracking id.
C14_OneOutcomePerTrackingId ==
  \A i, j \in 1..Len(effectiveness) :
    effectiveness[i].id = effectiveness[j].id => i = j

\* C15: a track-outcome request that is answered 200 reports
\* effectiveness_recorded = min(0.3*[action_taken] + 0.3*[revenue_impact > 0]
\* + 0.2*[pattern_broken] + 0.2*[breakthrough], 1), a number from 0 to 1 that
\* is 1 when all four hold.
C15_EffectivenessReported ==
  (out.endpoint \in {"api", "engine"} /\ out.status = 200) =>
    LET outcome == Val(out.outcome)
        tenths == (IF outcome.action_taken THEN 3 ELSE 0)
                  + (IF outcome.revenue_impact # Undefined
                        /\ outcome.revenue_impact[1] > 0 THEN 3 ELSE 0)
                  + (IF outcome.pattern_broken THEN 2 ELSE 0)
                  + (IF outcome.breakthrough THEN 2 ELSE 0)
        expected == Num(IF tenths > 10 THEN 10 ELSE tenths, 10)
    IN /\ out.effectiveness_recorded = expected
       /\ 0 <= expected[1] /\ expected[1] <= expected[2]
       /\ tenths = 10 => out.effectiveness_recorded = Whole(1)

\* C16: a health request is answered with a status other than 200 when the
\* datastore probe fails, and with 200 only when the probe succeeds.
C16_HealthFollowsProbe ==
  out.endpoint \in {"engine-health", "server-health"} =>
    (out.status = 200 <=> out.probeOk)

\* C18: within one analysis call every datastore read belongs to the fan-out
\* and is answered before the first detector heuristic starts, and no
\* detector issues a read of its own: whenever a detector has run its
\* heuristic, no read of the fan-out is in flight, and no detector ever has
\* a read of its own in flight.
C18_ReadsJoinedBeforeHeuristics ==
  LET heuristicRan(d) ==
        run.pc = "detect" /\ run.stage[d] = Len(DetectorReads[d])
      readInFlight(d) ==
        run.pc = "detect" /\ run.stage[d] < Len(DetectorReads[d])
  IN /\ (\E d \in DOMAIN DetectorReads : heuristicRan(d)) => run.pending = {}
     /\ \A d \in DOMAIN DetectorReads : ~readInFlight(d)

\* C19: no operation depends on another user's state: with the rows of u1
\* fixed (none) and every call made for u1 answered in time, an admitted
\* analyze request of u1 gets the same result, 200 with no patterns, whatever
\* requests were made for u2.
C19_ResultIndependentOfOthers ==
  (resp.endpoint = "engine" /\ resp.userId = Some("u1")) =>
    /\ resp.status = 200
    /\ resp.patterns = <<>>

C21_LevelWrittenOnlyByTracking ==
  [][(resp' # resp \/ gen' # gen \/ out' # out \/ pattern_cache' # pattern_cache
        \/ patternCache' # patternCache \/ deliveries' # deliveries
        \/ effectiveness' # effectiveness)
       => resistance' = resistance]_vars

C21_Witness ==
  /\ resistance["u1"] # NoRow
  /\ Val(resistance["u1"]) > 0
  /\ resp.endpoint = "realtime"
  /\ gen.called
  /\ out.endpoint = "api" /\ out.status = 200
  /\ pattern_cache["u1"] # NoRow
  /\ deliveries["u1"] > 0

C23_ParalysisExactlyAtThreshold ==
  detected.called =>
    LET shipped == IF detected.executedCount = 0 THEN 1
                   ELSE detected.executedCount
        paralysed == detected.plannedCount >= 3 * shipped
                       \/ detected.blockers # Null
    IN /\ (detected.engine # Null) = paralysed
       /\ detected.blockers = Null => (detected.optimizer # Null) = paralysed

\* C24: every realtime pattern check that finds a critical pattern writes an
\* "intervention" event to the user's stream, and a check that finds only
\* non-critical patterns writes a "pattern_detected" event.
C24_CheckWritesEvent ==
  (resp.endpoint = "realtime" /\ resp.patterns # <<>>) =>
     resp.event = (IF FindCritical(resp.patterns) # Null
                     THEN "intervention" ELSE "pattern_detected")

\* C25: after 3 consecutive failed operations of a service its circuit is
\* open; a call made while the circuit is open and less than 30 s have passed
\* since the last failure does not invoke the operation and returns the
\* fallback's value (null without fallback); a call made on an open circuit
\* once 30 s have passed invokes the operation; a success leaves the failure
\* count at 0.
C25_BreakerOpensSkipsAndRecovers ==
  [][LET last == cb'.last
         called == cb'.calls > cb.calls
         invoked == Len(cb'.pending) > Len(cb.pending)
     IN /\ (last.kind = "failed" /\ cb'.streak[last.service] >= 3) =>
             circuitBreakers'[last.service].isOpen
        /\ (last.kind = "succeeded") =>
             /\ circuitBreakers'[last.service].failures = 0
             /\ cb'.streak[last.service] = 0
        /\ \A s \in Services :
             LET b == circuitBreakers[s]
                 since == cb.now - (IF b.lastFailure = Null THEN 0
                                    ELSE Val(b.lastFailure))
             IN (called /\ last.service = s /\ b.isOpen) =>
                  IF since < 30000
                    THEN /\ ~invoked
                         /\ circuitBreakers' = circuitBreakers
                         /\ last.value = (IF last.hasFallback THEN "fallback"
                                          ELSE "null")
                    ELSE /\ invoked
                         /\ cb'.pending[Len(cb'.pending)].service = s]_vars

\* Three operations in a row failed and opened the circuit, and a call made
\* once the cooldown had passed has invoked the operation again.
C25_Witness ==
  /\ cb.last.kind = "invoked" /\ cb.last.retry
  /\ cb.streak[cb.last.service] >= 3
  /\ cb.now - Val(circuitBreakers[cb.last.service].lastFailure) >= 30000
  /\ ~circuitBreakers[cb.last.service].isOpen

\* C26: between two successful opens the client makes at most
\* maxReconnectAttempts reconnection attempts (reconnectAttempts counts the
\* connectSSE calls of the reconnect timeouts since the last open), the n-th
\* scheduled after min(1000 * 2^n, 30000) ms, whatever error events arrive;
\* at the limit an error fires 'disconnected' and schedules nothing.
C26_ReconnectionBounded ==
  /\ client.reconnectAttempts <= maxReconnectAttempts
  /\ \A i \in 1..Len(client.timers) :
       client.timers[i] \in {1000, 2000, 4000, 8000, 16000}
  /\ client.fired = "disconnected" =>
       client.reconnectAttempts >= maxReconnectAttempts

\* C27: every pattern passed to detectPattern is in the pattern buffer or in
\* a POST in flight until a POST containing it has been accepted by the
\* server, also when sends fail or overlap.
C27_NoPatternLost ==
  \A p \in 1..client.detected :
    \/ p \in client.accepted
    \/ \E k \in 1..Len(client.patternBuffer) : client.patternBuffer[k] = p
    \/ \E i \in 1..Len(client.posts) :
         \E k \in 1..Len(client.posts[i]) : client.posts[i][k] = p

\* C28: in any time span shorter than 60 s (two instants 30 s apart) at most
\* RateLimit + 1 = 31 analyze requests of u1 are admitted to analysis, and a
\* request answered 429 runs no analysis and leaves the counter alone,
\* whatever other users put into the shared cache.
C28_AtMost31PerMinute ==
  [][/\ lru'.admittedNow + lru'.admittedBefore <= RateLimit + 1
     /\ (resp'.seq # resp.seq /\ resp'.status = 429) =>
          /\ ~resp'.detectorsRun
          /\ patternCache' = patternCache
          /\ deliveries' = deliveries]_vars

\* C29: on application load the user reaches the authenticated state only
\* if verify-token verified the stored token; when the verification is
\* rejected, answers another status or cannot be made, the user stays
\* unauthenticated.
C29_AuthenticatedOnlyIfVerified ==
  (app.via \in VerifyOutcomes \cup {"unchecked"} /\ app.isAuthenticated) =>
     app.via = "verified"

\* C30: track-outcome answers 200 only if the outcome was written to
\* intervention_effectiveness for that tracking id: not when the write is
\* skipped by the open circuit, fails or matches no row.
C30_SuccessMeansWritten ==
  [][(/\ out'.seq # out.seq
      /\ out'.endpoint \in {"api", "engine"}
      /\ out'.status = 200) =>
       /\ \E i \in 1..Len(effectiveness') :
            effectiveness'[i].id = Val(out'.tracking_id)
       /\ \/ effectiveness' # effectiveness
          \/ \E i \in 1..Len(effectiveness) :
               /\ effectiveness[i].column = "intervention_id"
               /\ effectiveness[i].id = Val(out'.tracking_id)]_vars

C32_NoConnectionAfterDisconnect == ~client.reopened

\* C33: whatever the interleaving of the concurrent withCircuitBreaker calls
\* of a service, an open circuit has counted at least 3 failures, and right
\* after an operation has succeeded the circuit of its service is closed with
\* a failure count of 0.
C33_OpenMeansThreeFailures ==
  /\ \A s \in Services :
       circuitBreakers[s].isOpen =>
         circuitBreakers[s].failures >= FailureThreshold
  /\ cb.last.kind = "succeeded" =>
       /\ ~circuitBreakers[cb.last.service].isOpen
       /\ circuitBreakers[cb.last.service].failures = 0

\* C34: the cached field of a successful analyze response is true exactly
\* when the pattern result was read from the pattern cache, and false exactly
\* when the detectors computed it for this request.
C34_CachedFlagTellsCacheHit ==
  (resp.endpoint = "api" /\ resp.status = 200) =>
    /\ resp.cached <=> resp.fromCache
    /\ resp.detectorsRun => ~resp.cached

\* C35: once handleLogout has completed, whether its logout request was
\* answered or failed, none of the session items (token, user, onboarding
\* flag, profile, session-created time, session id) is stored and the
\* application is unauthenticated.
C35_LogoutClearsSession ==
  app.via = "logout" =>
    /\ app.token = "none" /\ app.userData = "none"
    /\ ~app.onboardingCompleted /\ ~app.profile
    /\ app.sessionCreated = "none" /\ ~app.sessionId
    /\ ~app.isAuthenticated /\ app.user = "none" /\ ~app.showOnboarding

\* A logout whose request failed has completed and left nothing stored.
C35_Witness ==
  /\ app.via = "logout" /\ app.logoutRequest = "failed"
  /\ app.token = "none" /\ ~app.profile /\ ~app.isAuthenticated

====
